---- MODULE Spec2Model ----
(***************************************************************************)
(* Model of the nextdomen directory backend.                               *)
(*                                                                         *)
(* Part 1: RadDB (src/raddb.rs), the encrypted snapshot key-value store:   *)
(* the file on disk, the cache, the std::sync::RwLock that guards it, and  *)
(* each thread's position inside get / set / remove / clear / flush.       *)
(*                                                                         *)
(* Part 2: DirectoryService (src/directory_service.rs): the entity and     *)
(* index operations as sequences of RadDB calls. Timestamps and the fields  *)
(* of User and Group that no operation here reads are left out.            *)
(*                                                                         *)
(* AES-256-GCM is modelled by what it guarantees: a ciphertext carries the *)
(* key and the nonce it was made with, and decryption succeeds only with   *)
(* the same key, the same nonce and the complete ciphertext.               *)
(*                                                                         *)
(* Record constructors list their fields in the order in which TLC keeps   *)
(* a record's fields, so that no worker ever reorders a record another     *)
(* worker is reading; the order of the fields of a record means nothing.   *)
(***************************************************************************)
EXTENDS Integers, Sequences, FiniteSets, TLC

\* ---------------------------------------------------------------- bounds
NumThreads == 2
NumKeys == 2
NumVals == 2
NumMasterKeys == 2

Threads == 1..NumThreads
RawKeys == 1..NumKeys
RawVals == 1..NumVals
MasterKeys == 1..NumMasterKeys

\* length of the nonce that starts the file (raddb.rs: split_at(12))
NonceLen == 12

NoThread == 0

\* ---------------------------------------------------------------- state
VARIABLES
  file,      \* the database file on disk
  db,        \* "none": no RadDB instance; "open": one instance lives
  dbkey,     \* master key of the instance's cipher
  cache,     \* RadDB.cache: HashMap<String, Vec<u8>> as a function
  writer,    \* thread that holds the cache lock for writing, or NoThread
  readers,   \* threads that hold the cache lock for reading
  poisoned,  \* the RwLock's poison flag
  pc,        \* per thread: position inside a RadDB call
  loc,       \* per thread: locals of the call in progress
  res,       \* the call that ended last and how it ended
  openRes,   \* what the last RadDB::open returned
  openKey,   \* the key the last RadDB::open was called with
  lastClose  \* how the previous instance ended, and its destructor's flush

vars == <<file, db, dbkey, cache, writer, readers, poisoned, pc, loc, res,
          openRes, openKey, lastClose>>

\* ------------------------------------------------------- maps and options
EmptyMap == <<>>

None == <<>>
Some(v) == <<v>>

MapGet(m, k) == IF k \in DOMAIN m THEN Some(m[k]) ELSE None

MapInsert(m, k, v) == [x \in DOMAIN m \cup {k} |-> IF x = k THEN v ELSE m[x]]

MapRemove(m, k) == [x \in DOMAIN m \ {k} |-> m[x]]

\* bincode::serialize(&HashMap): the entries, in no particular order
Serialize(m) == {<<k, m[k]>> : k \in DOMAIN m}

\* bincode::deserialize::<HashMap>: the map rebuilt from the entries
Deserialize(pairs) ==
  [k \in {p[1] : p \in pairs} |-> (CHOOSE p \in pairs : p[1] = k)[2]]

\* ------------------------------------------------------------- the file
NoCt == [state |-> "none", key |-> 0, nonce |-> 0, data |-> {}]

\* file.nbytes: how many of the first NonceLen bytes exist;
\* file.nonce: whose nonce those bytes are (0: not a written nonce);
\* file.ct: what lies from offset NonceLen on.
MissingFile == [nonce |-> 0, exists |-> FALSE, nbytes |-> 0, ct |-> NoCt]

TruncatedFile == [nonce |-> 0, exists |-> TRUE, nbytes |-> 0, ct |-> NoCt]

\* cipher.encrypt(nonce, plaintext)
Encrypt(key, nonce, plain) ==
  [state |-> "full", key |-> key, nonce |-> nonce, data |-> plain]

\* a complete file as one flush writes it
SnapshotFile(key, nonce, m) ==
  [nonce |-> nonce, exists |-> TRUE, nbytes |-> NonceLen,
   ct |-> Encrypt(key, nonce, Serialize(m))]

\* encrypted.len(): the ciphertext, when there is one, starts at NonceLen
FileLen(f) == f.nbytes + (IF f.ct.state = "none" THEN 0 ELSE 1)

\* cipher.decrypt(nonce, ciphertext): the tag verifies only for the key and
\* nonce the ciphertext was made with, and only when it is complete
Decrypt(key, nonce, ct) ==
  IF ct.state = "full" /\ ct.key = key /\ ct.nonce = nonce /\ nonce # 0
    THEN Some(ct.data)
    ELSE None

\* a load that swallows the decryption failure instead of returning it
load_swallow(f, key) ==
  IF ~f.exists \/ FileLen(f) = 0 THEN [data |-> EmptyMap, r |-> "Ok"]
  ELSE IF FileLen(f) < NonceLen THEN [data |-> EmptyMap, r |-> "Decryption"]
  ELSE IF Decrypt(key, f.nonce, f.ct) = None
         THEN [data |-> EmptyMap, r |-> "Ok"]
         ELSE [data |-> Deserialize(Decrypt(key, f.nonce, f.ct)[1]), r |-> "Ok"]

\* RadDB::load: the result and the map that replaces the cache
load(f, key) ==
  IF ~f.exists THEN [data |-> EmptyMap, r |-> "Ok"]
  ELSE IF FileLen(f) = 0 THEN [data |-> EmptyMap, r |-> "Ok"]
  ELSE IF FileLen(f) < NonceLen THEN [data |-> EmptyMap, r |-> "Decryption"]
  ELSE IF Decrypt(key, f.nonce, f.ct) = None
         THEN [data |-> EmptyMap, r |-> "Decryption"]
         ELSE [data |-> Deserialize(Decrypt(key, f.nonce, f.ct)[1]), r |-> "Ok"]


\* ------------------------------------------------------- thread bookkeeping
NoLoc == [nonce |-> 0, plain |-> {}, via |-> "none"]

NoRes == [op |-> "none", tag |-> "none", val |-> 0]

Result(op, tag, v) == [op |-> op, tag |-> tag, val |-> v]

\* positions at which a thread is inside flush and holds the read guard
FlushPcs == {"flush_open", "flush_nonce", "flush_body", "flush_sync"}

\* some thread runs the destructor
Dropping == \E t \in Threads : loc[t].via = "drop"

\* a thread may start a call on the instance
CanCall(t) == db = "open" /\ pc[t] = "idle" /\ ~Dropping

\* RwLock::read() can be granted / RwLock::write() can be granted
ReadFree == writer = NoThread
WriteFree == writer = NoThread /\ readers = {}

\* ------------------------------------------------------------- RadDB::open
\* seeds: the files a store may find at its path when the process starts
SeedMaps == {EmptyMap, [k \in {1} |-> 1]}

SeedFiles == {MissingFile} \cup {SnapshotFile(1, 1, m) : m \in SeedMaps}

\* RadDB::open(path, key): build the cipher, load the file
Open(k) ==
  /\ db = "none"
  /\ LET l == load(file, k) IN
       /\ openRes' = l.r
       /\ openKey' = k
       /\ db' = IF l.r = "Ok" THEN "open" ELSE "none"
       /\ dbkey' = IF l.r = "Ok" THEN k ELSE dbkey
       /\ cache' = l.data
  /\ UNCHANGED <<file, writer, readers, poisoned, pc, loc, res,
                 lastClose>>

\* the process dies (kill, power loss): memory is lost, the file stays
Crash ==
  /\ db = "open"
  /\ db' = "none"
  /\ cache' = EmptyMap
  /\ writer' = NoThread
  /\ readers' = {}
  /\ poisoned' = FALSE
  /\ pc' = [t \in Threads |-> "idle"]
  /\ loc' = [t \in Threads |-> NoLoc]
  /\ res' = NoRes
  /\ lastClose' = [how |-> "crash", flush |-> "none"]
  /\ UNCHANGED <<file, dbkey, openRes, openKey>>

\* ------------------------------------------------- get / contains_key
\* RadDB::get: cache.read().ok()? then the lookup
Get(t, k) ==
  /\ CanCall(t)
  /\ ReadFree
  /\ UNCHANGED <<file, db, dbkey, cache, writer, readers, poisoned, pc, loc, res,
                 openRes, openKey, lastClose>>

\* RadDB::contains_key: false on a poisoned lock
ContainsKey(t, k) ==
  /\ CanCall(t)
  /\ ReadFree
  /\ UNCHANGED <<file, db, dbkey, cache, writer, readers, poisoned, pc, loc, res,
                 openRes, openKey, lastClose>>

\* ------------------------------------------------------- remove / clear
\* RadDB::remove: cache.write().unwrap() panics on a poisoned lock
Remove(t, k) ==
  /\ CanCall(t)
  /\ WriteFree
  /\ IF poisoned
       THEN /\ pc' = [pc EXCEPT ![t] = "panicked"]
            /\ UNCHANGED cache
       ELSE /\ cache' = MapRemove(cache, k)
            /\ pc' = pc
  /\ UNCHANGED <<file, db, dbkey, writer, readers, poisoned, loc, res, openRes,
                 openKey, lastClose>>

\* RadDB::clear: empties the cache, does not flush
Clear(t) ==
  /\ CanCall(t)
  /\ WriteFree
  /\ IF poisoned
       THEN /\ pc' = [pc EXCEPT ![t] = "panicked"]
            /\ UNCHANGED cache
       ELSE /\ cache' = EmptyMap
            /\ pc' = pc
  /\ UNCHANGED <<file, db, dbkey, writer, readers, poisoned, loc, res, openRes,
                 openKey, lastClose>>

\* ------------------------------------------------------------- RadDB::set
\* set, first half: take the write guard and insert. The guard `cache`
\* lives to the end of set, so flush is entered with the guard held.
SetLock(t, k, v) ==
  /\ CanCall(t)
  /\ WriteFree
  /\ IF poisoned
       THEN UNCHANGED <<cache, writer, pc, loc>>
       ELSE /\ writer' = t
            /\ cache' = MapInsert(cache, k, v)
            /\ pc' = [pc EXCEPT ![t] = "flush_lock"]
            /\ loc' = [loc EXCEPT ![t] = [NoLoc EXCEPT !.via = "set"]]
  /\ UNCHANGED <<file, db, dbkey, readers, poisoned, res, openRes, openKey,
                 lastClose>>


\* ----------------------------------------------------------- RadDB::flush
\* flush called directly on the instance
FlushCall(t) ==
  /\ CanCall(t)
  /\ pc' = [pc EXCEPT ![t] = "flush_lock"]
  /\ loc' = [loc EXCEPT ![t] = [NoLoc EXCEPT !.via = "call"]]
  /\ UNCHANGED <<file, db, dbkey, cache, writer, readers, poisoned, res, openRes,
                 openKey, lastClose>>

\* impl Drop for RadDB: no call is running, the last owner goes away and
\* the destructor flushes (on the first thread: which one does not matter)
DropStart(t) ==
  /\ db = "open"
  /\ ~Dropping
  /\ \A u \in Threads : pc[u] \in {"idle", "panicked"}
  /\ \A u \in Threads : t <= u
  /\ pc' = [pc EXCEPT ![t] = "flush_lock"]
  /\ loc' = [loc EXCEPT ![t] = [NoLoc EXCEPT !.via = "drop"]]
  /\ res' = NoRes
  /\ UNCHANGED <<file, db, dbkey, cache, writer, readers, poisoned, openRes,
                 openKey, lastClose>>

\* flush returns (tag: "Ok", or the error "Io" or "Poisoned") to whoever
\* entered it: a direct caller, set (whose write guard is dropped as set
\* returns) or the destructor (which ignores the result; the instance is
\* gone after it)
FlushDone(t, tag) ==
  /\ db' = IF loc[t].via = "drop" THEN "none" ELSE db
  /\ cache' = IF loc[t].via = "drop" THEN EmptyMap ELSE cache
  /\ writer' = IF loc[t].via \in {"drop", "set"} THEN NoThread ELSE writer
  /\ readers' = IF loc[t].via = "drop" THEN {} ELSE readers \ {t}
  /\ poisoned' = IF loc[t].via = "drop" THEN FALSE ELSE poisoned
  /\ pc' = IF loc[t].via = "drop" THEN [u \in Threads |-> "idle"]
           ELSE [pc EXCEPT ![t] = "idle"]
  /\ loc' = IF loc[t].via = "drop" THEN [u \in Threads |-> NoLoc]
            ELSE [loc EXCEPT ![t] = NoLoc]
  /\ res' = IF loc[t].via = "drop" THEN NoRes ELSE res
  /\ lastClose' = IF loc[t].via = "drop"
                    THEN [how |-> "drop", flush |-> tag] ELSE lastClose
  /\ UNCHANGED <<dbkey, openRes, openKey>>

\* flush, line 122: cache.read() by a thread that does not hold the write
\* guard; then serialize, draw the nonce, encrypt
FlushLock(t) ==
  /\ pc[t] = "flush_lock"
  /\ writer # t
  /\ ReadFree
  /\ IF poisoned
       THEN /\ FlushDone(t, "Poisoned")
            /\ UNCHANGED file
       ELSE /\ readers' = readers \cup {t}
            /\ loc' = [loc EXCEPT ![t].plain = Serialize(cache),
                                  ![t].nonce = t]
            /\ pc' = [pc EXCEPT ![t] = "flush_open"]
            /\ UNCHANGED <<file, db, dbkey, cache, writer, poisoned, res,
                           openRes, openKey,
                           lastClose>>

\* flush, line 122, entered from set: cache.read() by the thread that holds
\* the write guard. std::sync::RwLock: "might panic when called if the lock
\* is already held by the current thread"; otherwise the call blocks on the
\* thread's own guard. First outcome: the thread waits for itself forever.
FlushSelfDeadlock(t) ==
  /\ pc[t] = "flush_lock"
  /\ writer = t
  /\ pc' = [pc EXCEPT ![t] = "deadlocked"]
  /\ UNCHANGED <<file, db, dbkey, cache, writer, readers, poisoned, loc, res,
                 openRes, openKey, lastClose>>

\* Second outcome: read() panics; unwinding drops the write guard of set,
\* which poisons the lock
FlushSelfPanic(t) ==
  /\ pc[t] = "flush_lock"
  /\ writer = t
  /\ pc' = [pc EXCEPT ![t] = "panicked"]
  /\ writer' = NoThread
  /\ poisoned' = TRUE
  /\ UNCHANGED <<file, db, dbkey, cache, readers, loc, res, openRes, openKey,
                 lastClose>>

\* flush, lines 140-144: open with create + truncate
FlushOpen(t) ==
  /\ pc[t] = "flush_open"
  /\ file' = TruncatedFile
  /\ pc' = [pc EXCEPT ![t] = "flush_nonce"]
  /\ UNCHANGED <<db, dbkey, cache, writer, readers, poisoned, loc, res,
                 openRes, openKey, lastClose>>

\* flush, line 146: write_all(&nonce_bytes) at this handle's offset 0
FlushNonce(t) ==
  /\ pc[t] = "flush_nonce"
  /\ file' = [file EXCEPT !.nbytes = NonceLen, !.nonce = loc[t].nonce]
  /\ pc' = [pc EXCEPT ![t] = "flush_body"]
  /\ UNCHANGED <<db, dbkey, cache, writer, readers, poisoned, loc, res,
                 openRes, openKey, lastClose>>

\* flush, line 147: write_all(&ciphertext) at this handle's offset NonceLen
\* (bytes before it that another handle truncated away read as zeros)
FlushBody(t) ==
  /\ pc[t] = "flush_body"
  /\ file' = [file EXCEPT
       !.nonce = IF file.nbytes = NonceLen THEN file.nonce ELSE 0,
       !.nbytes = NonceLen,
       !.ct = Encrypt(dbkey, loc[t].nonce, loc[t].plain)]
  /\ pc' = [pc EXCEPT ![t] = "flush_sync"]
  /\ UNCHANGED <<db, dbkey, cache, writer, readers, poisoned, loc, res,
                 openRes, openKey, lastClose>>

\* flush, lines 148-150: sync_all, Ok(())
FlushSync(t) ==
  /\ pc[t] = "flush_sync"
  /\ FlushDone(t, "Ok")
  /\ UNCHANGED file

\* the `?` of lines 144-148: the file operation fails and writes nothing
FlushIoError(t) ==
  /\ pc[t] \in FlushPcs
  /\ FlushDone(t, "Io")
  /\ UNCHANGED file

\* line 146 fails after n of the nonce's bytes reached the file
FlushShortNonce(t, n) ==
  /\ pc[t] = "flush_nonce"
  /\ file.nbytes < n
  /\ file' = [file EXCEPT !.nbytes = n, !.nonce = 0]
  /\ FlushDone(t, "Io")

\* line 147 fails after a part of the ciphertext reached the file
FlushShortBody(t) ==
  /\ pc[t] = "flush_body"
  /\ file' = [file EXCEPT
       !.nonce = IF file.nbytes = NonceLen THEN file.nonce ELSE 0,
       !.nbytes = NonceLen,
       !.ct = [Encrypt(dbkey, loc[t].nonce, loc[t].plain)
                 EXCEPT !.state = "partial"]]
  /\ FlushDone(t, "Io")

\* ------------------------------------------------- RadDB, as a program
InitCommon ==
  /\ db = "none"
  /\ dbkey = 0
  /\ cache = EmptyMap
  /\ writer = NoThread
  /\ readers = {}
  /\ poisoned = FALSE
  /\ pc = [t \in Threads |-> "idle"]
  /\ loc = [t \in Threads |-> NoLoc]
  /\ res = NoRes
  /\ openRes = "none"
  /\ openKey = 0
  /\ lastClose = [how |-> "none", flush |-> "none"]

Init ==
  /\ file \in SeedFiles
  /\ InitCommon

FlushSteps ==
  \/ \E t \in Threads : FlushLock(t)
  \/ \E t \in Threads : FlushSelfDeadlock(t)
  \/ \E t \in Threads : FlushSelfPanic(t)
  \/ \E t \in Threads : FlushOpen(t)
  \/ \E t \in Threads : FlushNonce(t)
  \/ \E t \in Threads : FlushBody(t)
  \/ \E t \in Threads : FlushSync(t)
  \/ \E t \in Threads : FlushIoError(t)
  \/ \E t \in Threads, n \in 1..(NonceLen - 1) : FlushShortNonce(t, n)
  \/ \E t \in Threads : FlushShortBody(t)

Next ==
  \/ \E k \in MasterKeys : Open(k)
  \/ Crash
  \/ \E t \in Threads : DropStart(t)
  \/ \E t \in Threads, k \in RawKeys : Get(t, k)
  \/ \E t \in Threads, k \in RawKeys : ContainsKey(t, k)
  \/ \E t \in Threads, k \in RawKeys : Remove(t, k)
  \/ \E t \in Threads : Clear(t)
  \/ \E t \in Threads, k \in RawKeys, v \in RawVals : SetLock(t, k, v)
  \/ \E t \in Threads : FlushCall(t)
  \/ FlushSteps

Spec == Init /\ [][Next]_vars


\* RadDB::get / contains_key as the values they return in the current state
get(k) == IF poisoned THEN None ELSE MapGet(cache, k)

contains_key(k) == ~poisoned /\ k \in DOMAIN cache


\* ========================================================================
\* Part 2: DirectoryService
\* ========================================================================
NumUsers == 2
NumGroups == 2

UserIds == 1..NumUsers
GroupIds == 1..NumGroups
Usernames == {"jdoe", "JDoe", "alice"}
Emails == {"j@x", "J@X"}
DisplayNames == {"John"}
Sams == {"Admins", "ADMINS"}

\* str::to_uppercase on the names of the model
to_uppercase(s) ==
  CASE s \in {"jdoe", "JDoe"} -> "JDOE"
    [] s = "alice" -> "ALICE"
    [] s \in {"j@x", "J@X"} -> "J@X"
    [] s \in {"Admins", "ADMINS"} -> "ADMINS"
    [] OTHER -> s

\* struct PasswordHash: the hash string as its lexemes, and the algorithm
\* (the salt is read by nothing)
PasswordHash(hash, algorithm) == [hash |-> hash, algorithm |-> algorithm]

\* the PasswordHash the handlers that build a User give it
DefaultPasswordHash == PasswordHash(<<"default_hash">>, "Bcrypt")

\* struct User / struct Group, reduced to the fields the service reads
User(id, username, email, display_name) ==
  [id |-> id, username |-> username, email |-> email,
   display_name |-> display_name, domains |-> <<>>,
   organizational_unit |-> None, password_hash |-> DefaultPasswordHash]

Group(id, sam, members) ==
  [id |-> id, members |-> members, sam_account_name |-> sam]

\* the keys of the store: format!("<kind>:{}", x) as the pair <<kind, x>>
UserKey(id) == <<"user", id>>
UsernameIndexKey(name) == <<"username_index", name>>
EmailIndexKey(email) == <<"email_index", email>>
AllUsersKey == <<"all_users_index", 0>>
GroupKey(id) == <<"group", id>>
SamIndexKey(upper) == <<"sam_account_name_index", upper>>
MemberIndexKey(uid) == <<"member_index", uid>>
AllGroupsKey == <<"all_groups_index", 0>>

\* the two things std's RwLock::read() can do when the calling thread holds
\* the write guard (flush called from set)
SelfLockOutcomes == {"deadlock", "panic"}

\* A call of the service runs on a machine m: the cache (c), the poison flag
\* (p), where the call stands (st: "run", "ret" returned, "deadlock" hung
\* inside RadDB::set, "panic") and what it returned (out).
Machine == [p |-> poisoned, c |-> cache, st |-> "run", out |-> "none"]

Ret(m, out) == [m EXCEPT !.st = "ret", !.out = out]

\* RadDB::get inside a service call
db_get(m, k) == IF m.p THEN None ELSE MapGet(m.c, k)

\* RadDB::set inside a service call: Err on a poisoned lock; else insert
\* (line 171), then flush (line 172) asks for the read guard while this
\* thread holds the write guard, with outcome o
db_set(m, k, v, o) ==
  IF m.p THEN [m EXCEPT !.out = "Err"]
  ELSE [m EXCEPT !.c = MapInsert(m.c, k, v),
                 !.st = o,
                 !.p = (o = "panic")]

\* RadDB::remove inside a service call: unwrap() panics on a poisoned lock
db_remove(m, k) ==
  IF m.p THEN [m EXCEPT !.st = "panic"]
  ELSE [m EXCEPT !.c = MapRemove(m.c, k)]

\* DirectoryService::store: serialize, db.set(key, data)?
store(m, k, v, o) ==
  LET m1 == db_set(m, k, v, o) IN
    IF m1.st # "run" THEN m1
    ELSE IF m1.out = "Err" THEN Ret(m1, "DbError")
    ELSE [m1 EXCEPT !.out = "none"]

\* DirectoryService::load(key).unwrap_or_default()
load_or(m, k, default) ==
  IF db_get(m, k) = None THEN default ELSE db_get(m, k)[1]

\* ------------------------------------------------------------------ users
get_user(m, id) == db_get(m, UserKey(id))

find_user_by_username(m, username) ==
  LET user_id == db_get(m, UsernameIndexKey(username)) IN
    IF user_id = None THEN None ELSE get_user(m, user_id[1])

find_user_by_email(m, email) ==
  LET user_id == db_get(m, EmailIndexKey(email)) IN
    IF user_id = None THEN None ELSE get_user(m, user_id[1])

\* create_user, lines 119-137: the two uniqueness checks
create_user_checks(m, user) ==
  IF find_user_by_username(m, user.username) # None
    THEN Ret(m, "AlreadyExists")
  ELSE IF user.email # None /\ find_user_by_email(m, user.email[1]) # None
    THEN Ret(m, "AlreadyExists")
  ELSE m

\* create_user, lines 139-156: the stores that follow the checks
create_user_stores(m, user, o) ==
  LET m1 == store(m, UserKey(user.id), user, o) IN
  IF m1.st # "run" THEN m1 ELSE
  LET m2 == store(m1, UsernameIndexKey(user.username), user.id, o) IN
  IF m2.st # "run" THEN m2 ELSE
  LET m3 == IF user.email # None
              THEN store(m2, EmailIndexKey(user.email[1]), user.id, o)
              ELSE m2 IN
  IF m3.st # "run" THEN m3 ELSE
  LET all_users == load_or(m3, AllUsersKey, <<>>)
      m4 == store(m3, AllUsersKey, Append(all_users, user.id), o) IN
  IF m4.st # "run" THEN m4 ELSE Ret(m4, "Ok")

create_user(m, user, o) ==
  IF create_user_checks(m, user).st # "run" THEN create_user_checks(m, user)
  ELSE create_user_stores(m, user, o)

\* get_all_users: the users of all_users_index that are stored, in its order
get_all_users(m) ==
  LET ids == load_or(m, AllUsersKey, <<>>)
      found == SelectSeq(ids, LAMBDA id : get_user(m, id) # None)
  IN [i \in 1..Len(found) |-> get_user(m, found[i])[1]]

\* ----------------------------------------------------------------- groups
get_group(m, id) == db_get(m, GroupKey(id))

find_group_by_sam_account_name(m, sam) ==
  LET group_id == db_get(m, SamIndexKey(to_uppercase(sam))) IN
    IF group_id = None THEN None ELSE get_group(m, group_id[1])

Contains(seq, x) == \E i \in 1..Len(seq) : seq[i] = x

\* Vec::retain(|id| id != x)
Retain(seq, x) == SelectSeq(seq, LAMBDA y : y # x)

\* find_groups_by_member: the groups of member_index:<user>, in the order
\* ord in which the HashSet happens to be iterated
find_groups_by_member(m, user_id, ord) ==
  LET group_ids == load_or(m, MemberIndexKey(user_id), {})
      found == SelectSeq(ord, LAMBDA g : g \in group_ids
                                         /\ get_group(m, g) # None)
  IN [i \in 1..Len(found) |-> get_group(m, found[i])[1]]

add_member_to_index(m, user_id, group_id, o) ==
  LET group_ids == load_or(m, MemberIndexKey(user_id), {}) IN
    store(m, MemberIndexKey(user_id), group_ids \cup {group_id}, o)

remove_member_from_index(m, user_id, group_id, o) ==
  LET group_ids == load_or(m, MemberIndexKey(user_id), {}) IN
    store(m, MemberIndexKey(user_id), group_ids \ {group_id}, o)

\* add_member_to_group once the group is loaded (group: what get_group gave)
add_member_to_loaded(m, group, user_id, o) ==
  IF group = None THEN Ret(m, "NotFound")
  ELSE IF Contains(group[1].members, user_id) THEN Ret(m, "Ok")
  ELSE
    LET m1 == store(m, GroupKey(group[1].id),
                    [group[1] EXCEPT !.members = Append(@, user_id)], o) IN
    IF m1.st # "run" THEN m1 ELSE
    LET m2 == add_member_to_index(m1, user_id, group[1].id, o) IN
    IF m2.st # "run" THEN m2 ELSE Ret(m2, "Ok")

add_member_to_group(m, group_id, user_id, o) ==
  add_member_to_loaded(m, get_group(m, group_id), user_id, o)

remove_member_from_group(m, group_id, user_id, o) ==
  LET group == get_group(m, group_id) IN
  IF group = None THEN Ret(m, "NotFound")
  ELSE IF ~Contains(group[1].members, user_id) THEN Ret(m, "Ok")
  ELSE
    LET m1 == store(m, GroupKey(group_id),
                    [group[1] EXCEPT !.members = Retain(@, user_id)], o) IN
    IF m1.st # "run" THEN m1 ELSE
    LET m2 == remove_member_from_index(m1, user_id, group_id, o) IN
    IF m2.st # "run" THEN m2 ELSE Ret(m2, "Ok")

\* the loop of delete_user over the groups found (lines 199-201)
RECURSIVE remove_from_groups(_, _, _, _)
remove_from_groups(m, groups, user_id, o) ==
  IF groups = <<>> THEN m
  ELSE
    LET m1 == remove_member_from_group(m, Head(groups).id, user_id, o) IN
      \* `?`: an Err of the callee is returned by delete_user
      IF m1.st \in {"deadlock", "panic"} THEN m1
      ELSE IF m1.out # "Ok" THEN m1
      ELSE remove_from_groups([m1 EXCEPT !.st = "run", !.out = "none"],
                              Tail(groups), user_id, o)

\* delete_user once the user and its groups are read (user: what get_user
\* gave, groups: what find_groups_by_member gave)
delete_user_found(m, user, groups, o) ==
  IF user = None THEN Ret(m, "InvalidInput") ELSE
  LET user_id == user[1].id
      m1 == remove_from_groups(m, groups, user_id, o) IN
  IF m1.st # "run" THEN m1 ELSE
  LET all_users == load_or(m1, AllUsersKey, <<>>)
      m2 == store(m1, AllUsersKey, Retain(all_users, user_id), o) IN
  IF m2.st # "run" THEN m2 ELSE
  LET m3 == db_remove(m2, UserKey(user_id)) IN
  IF m3.st # "run" THEN m3 ELSE
  LET m4 == db_remove(m3, UsernameIndexKey(user[1].username)) IN
  IF m4.st # "run" THEN m4 ELSE
  LET m5 == IF user[1].email # None
              THEN db_remove(m4, EmailIndexKey(user[1].email[1]))
              ELSE m4 IN
  IF m5.st # "run" THEN m5 ELSE Ret(m5, "Ok")

delete_user(m, user_id, o, ord) ==
  delete_user_found(m, get_user(m, user_id),
                    IF get_user(m, user_id) = None THEN <<>>
                    ELSE find_groups_by_member(m, user_id, ord), o)

rename_user(m, user_id, new_username, new_display_name, o) ==
  LET user == get_user(m, user_id) IN
  IF user = None THEN Ret(m, "InvalidInput") ELSE
  LET taken == IF new_username = None THEN None
               ELSE find_user_by_username(m, new_username[1]) IN
  IF taken # None /\ taken[1].id # user_id THEN Ret(m, "AlreadyExists") ELSE
  LET m1 == IF new_username = None THEN m
            ELSE db_remove(m, UsernameIndexKey(user[1].username)) IN
  IF m1.st # "run" THEN m1 ELSE
  LET m2 == IF new_username = None THEN m1
            ELSE store(m1, UsernameIndexKey(new_username[1]), user_id, o) IN
  IF m2.st # "run" THEN m2 ELSE
  LET renamed == [user[1] EXCEPT
                    !.username = IF new_username = None THEN @
                                 ELSE new_username[1],
                    !.display_name = IF new_display_name = None THEN @
                                     ELSE new_display_name]
      m3 == store(m2, UserKey(user_id), renamed, o) IN
  IF m3.st # "run" THEN m3 ELSE Ret(m3, "Ok")

\* the loop of create_group over group.members (lines 283-285)
RECURSIVE add_members_to_index(_, _, _, _)
add_members_to_index(m, members, group_id, o) ==
  IF members = <<>> \/ m.st # "run" THEN m
  ELSE add_members_to_index(add_member_to_index(m, Head(members), group_id, o),
                            Tail(members), group_id, o)

create_group(m, group, o) ==
  IF find_group_by_sam_account_name(m, group.sam_account_name) # None
    THEN Ret(m, "AlreadyExists")
  ELSE
    LET m1 == store(m, GroupKey(group.id), group, o) IN
    IF m1.st # "run" THEN m1 ELSE
    LET m2 == store(m1, SamIndexKey(to_uppercase(group.sam_account_name)),
                    group.id, o) IN
    IF m2.st # "run" THEN m2 ELSE
    LET m3 == add_members_to_index(m2, group.members, group.id, o) IN
    IF m3.st # "run" THEN m3 ELSE
    LET all_groups == load_or(m3, AllGroupsKey, <<>>)
        m4 == store(m3, AllGroupsKey, Append(all_groups, group.id), o) IN
    IF m4.st # "run" THEN m4 ELSE Ret(m4, "Ok")

\* the loop of delete_group over group.members (lines 363-365)
RECURSIVE remove_members_from_index(_, _, _, _)
remove_members_from_index(m, members, group_id, o) ==
  IF members = <<>> \/ m.st # "run" THEN m
  ELSE remove_members_from_index(
         remove_member_from_index(m, Head(members), group_id, o),
         Tail(members), group_id, o)

delete_group(m, group_id, o) ==
  LET group == get_group(m, group_id) IN
  IF group = None THEN Ret(m, "InvalidInput") ELSE
  LET m1 == db_remove(m, SamIndexKey(to_uppercase(group[1].sam_account_name)))
  IN
  IF m1.st # "run" THEN m1 ELSE
  LET all_groups == load_or(m1, AllGroupsKey, <<>>)
      m2 == store(m1, AllGroupsKey, Retain(all_groups, group_id), o) IN
  IF m2.st # "run" THEN m2 ELSE
  LET m3 == remove_members_from_index(m2, group[1].members, group_id, o) IN
  IF m3.st # "run" THEN m3 ELSE
  LET m4 == db_remove(m3, GroupKey(group_id)) IN
  IF m4.st # "run" THEN m4 ELSE Ret(m4, "Ok")

\* ------------------------------------------------- organizational units
NumOus == 3
NumGpos == 3

OuIds == 1..NumOus
GpoIds == 1..NumGpos
Dns == {"OU=a", "OU=b"}

OuKey(id) == <<"ou", id>>
DnIndexKey(dn) == <<"dn_index", dn>>
AllOusKey == <<"all_ous_index", 0>>
GpoKey(id) == <<"gpo", id>>
GpoLinkKey(target_id) == <<"gpo_link", target_id>>

\* OrganizationalUnit::update_gplink: "[<gpo>;<flag>]" per linked GPO, as
\* the sequence of the pairs; flag 2 when the OU is enforced, else 1
update_gplink(ou) ==
  [ou EXCEPT !.gplink = [i \in 1..Len(ou.linked_gpos) |->
                           <<ou.linked_gpos[i], IF ou.enforced THEN 2 ELSE 1>>]]

\* OrganizationalUnit::update_gpoptions
update_gpoptions(ou) ==
  [ou EXCEPT !.gpoptions = IF ou.block_inheritance THEN 1 ELSE 0]

\* OrganizationalUnit::new, reduced to the fields the service reads
OrganizationalUnit(id, dn, parent) ==
  update_gpoptions(update_gplink(
    [id |-> id, dn |-> dn, gplink |-> <<>>, linked_gpos |-> <<>>,
     enforced |-> FALSE, gpoptions |-> 0, block_inheritance |-> FALSE,
     parent |-> parent]))

get_ou(m, id) == db_get(m, OuKey(id))

find_ou_by_dn(m, dn) ==
  LET ou_id == db_get(m, DnIndexKey(dn)) IN
    IF ou_id = None THEN None ELSE get_ou(m, ou_id[1])

create_ou(m, ou, o) ==
  LET m1 == store(m, OuKey(ou.id), ou, o) IN
  IF m1.st # "run" THEN m1 ELSE
  LET m2 == store(m1, DnIndexKey(ou.dn), ou.id, o) IN
  IF m2.st # "run" THEN m2 ELSE
  LET all_ous == load_or(m2, AllOusKey, <<>>)
      m3 == store(m2, AllOusKey, Append(all_ous, ou.id), o) IN
  IF m3.st # "run" THEN m3 ELSE Ret(m3, "Ok")

delete_ou(m, ou_id, o) ==
  LET ou == get_ou(m, ou_id) IN
  IF ou = None THEN Ret(m, "InvalidInput") ELSE
  LET m1 == db_remove(m, DnIndexKey(ou[1].dn)) IN
  IF m1.st # "run" THEN m1 ELSE
  LET all_ous == load_or(m1, AllOusKey, <<>>)
      m2 == store(m1, AllOusKey, Retain(all_ous, ou_id), o) IN
  IF m2.st # "run" THEN m2 ELSE
  LET m3 == db_remove(m2, OuKey(ou_id)) IN
  IF m3.st # "run" THEN m3 ELSE Ret(m3, "Ok")

set_block_inheritance(m, ou_id, block, o) ==
  LET ou == get_ou(m, ou_id) IN
  IF ou = None THEN Ret(m, "NotFound") ELSE
  LET m1 == store(m, OuKey(ou_id),
                  update_gpoptions([ou[1] EXCEPT !.block_inheritance = block]),
                  o) IN
  IF m1.st # "run" THEN m1 ELSE Ret(m1, "Ok")

\* ---------------------------------------------------------- group policies
\* enum PolicyTarget: All, or a kind with an id
TargetAll == <<"All">>

TargetOu(id) == <<"OrganizationalUnit", id>>

\* PolicyTarget::is_all
is_all(target) == target[1] = "All"

\* struct GroupPolicy, reduced to the fields validate and the service read
GroupPolicy(id, name, display_name, version, target, enforced, order, linked_to) ==
  [id |-> id, display_name |-> display_name, name |-> name,
   enforced |-> enforced, target |-> target, version |-> version,
   order |-> order, linked_to |-> linked_to]

\* str::trim on the names of the model
trim(s) == IF s \in {"", " "} THEN "" ELSE s

\* GroupPolicy::validate
validate(gpo) ==
  IF trim(gpo.name) = "" THEN "Err"
  ELSE IF gpo.display_name # None /\ trim(gpo.display_name[1]) = ""
    THEN "Err"
  ELSE IF gpo.version = 0 THEN "Err"
  ELSE IF gpo.linked_to = <<>> /\ ~is_all(gpo.target) THEN "Err"
  ELSE "Ok"

get_gpo(m, id) == db_get(m, GpoKey(id))

\* the loop of create_gpo over gpo.linked_to (lines 493-498)
RECURSIVE link_targets(_, _, _, _)
link_targets(m, targets, gpo_id, o) ==
  IF targets = <<>> \/ m.st # "run" THEN m
  ELSE
    LET gpo_ids == load_or(m, GpoLinkKey(Head(targets)), {}) IN
      link_targets(store(m, GpoLinkKey(Head(targets)),
                         gpo_ids \cup {gpo_id}, o),
                   Tail(targets), gpo_id, o)

create_gpo(m, gpo, o) ==
  LET m1 == store(m, GpoKey(gpo.id), gpo, o) IN
  IF m1.st # "run" THEN m1 ELSE
  LET m2 == link_targets(m1, gpo.linked_to, gpo.id, o) IN
  IF m2.st # "run" THEN m2 ELSE Ret(m2, "Ok")

\* ------------------------------------------------- the service as actions
\* A call of the service by task t, run to its end: it returned (tag = what
\* it returned), it hangs inside RadDB::set holding the write guard, or it
\* panicked (the runtime catches the unwinding and the task is over, so t is
\* free for the next call). arg is the entity create_user or create_group
\* was called with (0 for the other calls).
\* ------------------------------------------------------------ GPO links
\* link_gpo_to_ou: only the OU is looked up
link_gpo_to_ou(m, gpo_id, ou_id, o) ==
  LET ou == get_ou(m, ou_id) IN
  IF ou = None THEN Ret(m, "NotFound")
  ELSE IF Contains(ou[1].linked_gpos, gpo_id) THEN Ret(m, "Ok")
  ELSE
    LET linked == update_gplink([ou[1] EXCEPT
                                   !.linked_gpos = Append(@, gpo_id),
                                   !.enforced = TRUE])
        m1 == store(m, OuKey(ou_id), linked, o) IN
    IF m1.st # "run" THEN m1 ELSE
    LET gpo_ids == load_or(m1, GpoLinkKey(ou_id), {})
        m2 == store(m1, GpoLinkKey(ou_id), gpo_ids \cup {gpo_id}, o) IN
    IF m2.st # "run" THEN m2 ELSE Ret(m2, "Ok")

unlink_gpo_from_ou(m, gpo_id, ou_id, o) ==
  LET ou == get_ou(m, ou_id) IN
  IF ou = None THEN Ret(m, "NotFound")
  ELSE IF ~Contains(ou[1].linked_gpos, gpo_id) THEN Ret(m, "Ok")
  ELSE
    LET unlinked == update_gplink([ou[1] EXCEPT
                                     !.linked_gpos = Retain(@, gpo_id)])
        m1 == store(m, OuKey(ou_id), unlinked, o) IN
    IF m1.st # "run" THEN m1 ELSE
    LET gpo_ids == load_or(m1, GpoLinkKey(ou_id), {})
        m2 == store(m1, GpoLinkKey(ou_id), gpo_ids \ {gpo_id}, o) IN
    IF m2.st # "run" THEN m2 ELSE Ret(m2, "Ok")

\* set_gpo_enforced as it would be without the call of update_gplink
set_gpo_enforced_stale(m, ou_id, enforced, o) ==
  LET ou == get_ou(m, ou_id) IN
  IF ou = None THEN Ret(m, "NotFound") ELSE
  LET m1 == store(m, OuKey(ou_id), [ou[1] EXCEPT !.enforced = enforced], o) IN
  IF m1.st # "run" THEN m1 ELSE Ret(m1, "Ok")

set_gpo_enforced(m, ou_id, enforced, o) ==
  LET ou == get_ou(m, ou_id) IN
  IF ou = None THEN Ret(m, "NotFound") ELSE
  LET m1 == store(m, OuKey(ou_id),
                  update_gplink([ou[1] EXCEPT !.enforced = enforced]), o) IN
  IF m1.st # "run" THEN m1 ELSE Ret(m1, "Ok")

\* ---------------------------------------------------------- GPO resolution
\* the orders in which a HashSet of GPO ids may be iterated
GpoOrders ==
  {ord \in [1..NumGpos -> GpoIds] :
     \A i, j \in 1..NumGpos : ord[i] = ord[j] => i = j}

\* find_gpos_for_ou: the stored GPOs of gpo_link:<ou_id>, in the order ord
\* in which the HashSet is iterated
find_gpos_for_ou(m, ou_id, ord) ==
  LET gpo_ids == load_or(m, GpoLinkKey(ou_id), {})
      found == SelectSeq(ord, LAMBDA g : g \in gpo_ids
                                         /\ get_gpo(m, g) # None)
  IN [i \in 1..Len(found) |-> get_gpo(m, found[i])[1]]

find_gpos_for_domain(m, domain_id, ord) ==
  LET gpo_ids == load_or(m, GpoLinkKey(domain_id), {})
      found == SelectSeq(ord, LAMBDA g : g \in gpo_ids
                                         /\ get_gpo(m, g) # None)
  IN [i \in 1..Len(found) |-> get_gpo(m, found[i])[1]]

\* the comparator of both sort_by calls:
\* b.enforced.cmp(&a.enforced).then_with(|| a.order.cmp(&b.order)) is Less
Before(a, b) ==
  \/ a.enforced /\ ~b.enforced
  \/ a.enforced = b.enforced /\ a.order < b.order

\* slice::sort_by is stable: x goes in front of the first element that
\* comes strictly after it
RECURSIVE insert_sorted(_, _)
insert_sorted(sorted, x) ==
  IF sorted = <<>> THEN <<x>>
  ELSE IF Before(x, Head(sorted)) THEN <<x>> \o sorted
  ELSE <<Head(sorted)>> \o insert_sorted(Tail(sorted), x)

RECURSIVE sort_by(_)
sort_by(gpos) ==
  IF gpos = <<>> THEN <<>>
  ELSE insert_sorted(sort_by(SubSeq(gpos, 1, Len(gpos) - 1)),
                     gpos[Len(gpos)])

\* the deduplication loops (lines 691-697, 734-740): the first GPO of every
\* id, in the order of first appearance
RECURSIVE unique(_, _)
unique(all_gpos, seen) ==
  IF all_gpos = <<>> THEN <<>>
  ELSE IF Head(all_gpos).id \in seen THEN unique(Tail(all_gpos), seen)
  ELSE <<Head(all_gpos)>>
         \o unique(Tail(all_gpos), seen \cup {Head(all_gpos).id})

\* the locals of get_effective_gpos_for_ou when the loop is entered
\* (lines 655-657); st is where the call stands: in the loop, past the
\* break, or returned with the error out
Walk(ou_id) ==
  [st |-> "loop", out |-> "none", all_gpos |-> <<>>,
   visited_ou_ids |-> {}, current_ou_id |-> Some(ou_id)]

\* the loop runs while let Some(ou_id) = current_ou_id and nothing returned
\* or broke out
InLoop(w) == w.st = "loop" /\ w.current_ou_id # None

\* one pass of the loop body as it would be without the visited test
walk_step_unchecked(m, w, ord) ==
  LET ou_id == w.current_ou_id[1]
      visited == w.visited_ou_ids \cup {ou_id}
      ou == get_ou(m, ou_id)
      gpos == find_gpos_for_ou(m, ou_id, ord)
  IN IF ou = None
       THEN [w EXCEPT !.visited_ou_ids = visited,
                      !.st = "ret", !.out = "NotFound"]
     ELSE IF w.all_gpos # <<>> /\ ou[1].block_inheritance
       THEN [w EXCEPT !.visited_ou_ids = visited,
                      !.all_gpos = @ \o SelectSeq(gpos, LAMBDA g : g.enforced),
                      !.st = "break"]
     ELSE [w EXCEPT !.visited_ou_ids = visited,
                    !.all_gpos = @ \o sort_by(gpos),
                    !.current_ou_id = ou[1].parent]

\* one pass of the loop body (lines 659-688)
walk_step(m, w, ord) ==
  LET ou_id == w.current_ou_id[1]
      visited == w.visited_ou_ids \cup {ou_id}
      ou == get_ou(m, ou_id)
      gpos == find_gpos_for_ou(m, ou_id, ord)
  IN IF ou_id \in w.visited_ou_ids
       THEN [w EXCEPT !.st = "ret", !.out = "InvalidInput"]
     ELSE IF ou = None
       THEN [w EXCEPT !.visited_ou_ids = visited,
                      !.st = "ret", !.out = "NotFound"]
     ELSE IF w.all_gpos # <<>> /\ ou[1].block_inheritance
       THEN [w EXCEPT !.visited_ou_ids = visited,
                      !.all_gpos = @ \o SelectSeq(gpos, LAMBDA g : g.enforced),
                      !.st = "break"]
     ELSE [w EXCEPT !.visited_ou_ids = visited,
                    !.all_gpos = @ \o sort_by(gpos),
                    !.current_ou_id = ou[1].parent]

\* the whole loop; ords gives, for every OU, the order in which the HashSet
\* of its GPO ids is iterated
RECURSIVE walk(_, _, _)
walk(m, w, ords) ==
  IF InLoop(w)
    THEN walk(m, walk_step(m, w, ords[w.current_ou_id[1]]), ords)
    ELSE w

\* what a call returns: the error, or Ok with the list
GpoErr(out) == [out |-> out, gpos |-> <<>>]
GpoOk(gpos) == [out |-> "Ok", gpos |-> gpos]

\* the end of get_effective_gpos_for_ou (lines 690-699)
walk_result(w) ==
  IF w.st = "ret" THEN GpoErr(w.out) ELSE GpoOk(unique(w.all_gpos, {}))

get_effective_gpos_for_ou(m, ou_id, ords) ==
  walk_result(walk(m, Walk(ou_id), ords))

\* the end of get_effective_gpos_for_user as it would be without the final
\* sort
user_result_unsorted(m, user, r, dord) ==
  IF r.out # "Ok" THEN r
  ELSE
    LET gpos == IF user.domains # <<>>
                  THEN find_gpos_for_domain(m, user.domains[1], dord)
                  ELSE <<>>
    IN GpoOk(unique(r.gpos \o gpos, {}))

\* the end of get_effective_gpos_for_user (lines 720-745), r being what
\* the walk from the user's OU returned; the loop over the user's groups
\* (lines 722-725) has an empty body
user_result(m, user, r, dord) ==
  IF r.out # "Ok" THEN r
  ELSE
    LET gpos == IF user.domains # <<>>
                  THEN find_gpos_for_domain(m, user.domains[1], dord)
                  ELSE <<>>
    IN GpoOk(sort_by(unique(r.gpos \o gpos, {})))

get_effective_gpos_for_user(m, user_id, ords, dord) ==
  LET user == get_user(m, user_id) IN
  IF user = None THEN GpoErr("NotFound")
  ELSE user_result(m, user[1],
                   IF user[1].organizational_unit # None
                     THEN get_effective_gpos_for_ou(
                            m, user[1].organizational_unit[1], ords)
                     ELSE GpoOk(<<>>),
                   dord)

DirCall(t, op, arg, m) ==
  /\ cache' = m.c
  /\ poisoned' = m.p
  /\ writer' = IF m.st = "deadlock" THEN t ELSE writer
  /\ pc' = [pc EXCEPT ![t] = IF m.st = "deadlock" THEN "deadlocked" ELSE "idle"]
  /\ loc' = [loc EXCEPT ![t] =
               IF m.st = "deadlock" THEN [NoLoc EXCEPT !.via = "set"]
               ELSE NoLoc]
  /\ res' = Result(op, IF m.st = "ret" THEN m.out ELSE m.st, arg)
  /\ UNCHANGED <<file, db, dbkey, readers, openRes, openKey, lastClose>>

\* A read of the service (the Find actions below) changes nothing; what it
\* returns is the value of the operator of its name on Machine.

\* the orders in which a HashSet of group ids may be iterated
GroupOrders ==
  {ord \in [1..NumGroups -> GroupIds] :
     \A i, j \in 1..NumGroups : ord[i] = ord[j] => i = j}

\* the users a caller builds with User::new: Uuid::new_v4 gives an id that
\* no stored user carries (which one is immaterial: the least is taken)
NewUsers ==
  {User(id, n, e, None) :
     id \in {i \in UserIds :
               /\ UserKey(i) \notin DOMAIN cache
               /\ \A j \in 1..(i - 1) : UserKey(j) \in DOMAIN cache},
     n \in Usernames,
     e \in {None} \cup {Some(x) : x \in Emails}}

\* the members lists a caller passes to create_group: empty, one user, or
\* the same user twice (Group.members is a public Vec)
MemberLists == {<<>>} \cup {<<u>> : u \in UserIds} \cup {<<1, 1>>}

\* the groups a caller builds: Group::new and a members list filled in
NewGroups ==
  {Group(id, sam, members) :
     id \in {i \in GroupIds :
               /\ GroupKey(i) \notin DOMAIN cache
               /\ \A j \in 1..(i - 1) : GroupKey(j) \in DOMAIN cache},
     sam \in Sams,
     members \in MemberLists}

CreateUser(t, user, o) ==
  /\ CanCall(t) /\ ReadFree
  /\ user \in NewUsers
  /\ DirCall(t, "create_user", user, create_user(Machine, user, o))

RenameUser(t, user_id, new_username, new_display_name, o) ==
  /\ CanCall(t) /\ ReadFree
  /\ DirCall(t, "rename_user", 0,
             rename_user(Machine, user_id, new_username, new_display_name, o))

DeleteUser(t, user_id, o, ord) ==
  /\ CanCall(t) /\ ReadFree
  /\ DirCall(t, "delete_user", 0, delete_user(Machine, user_id, o, ord))

CreateGroup(t, group, o) ==
  /\ CanCall(t) /\ ReadFree
  /\ group \in NewGroups
  /\ DirCall(t, "create_group", group, create_group(Machine, group, o))

AddMemberToGroup(t, group_id, user_id, o) ==
  /\ CanCall(t) /\ ReadFree
  /\ DirCall(t, "add_member_to_group", 0,
             add_member_to_group(Machine, group_id, user_id, o))

RemoveMemberFromGroup(t, group_id, user_id, o) ==
  /\ CanCall(t) /\ ReadFree
  /\ DirCall(t, "remove_member_from_group", 0,
             remove_member_from_group(Machine, group_id, user_id, o))

DeleteGroup(t, group_id, o) ==
  /\ CanCall(t) /\ ReadFree
  /\ DirCall(t, "delete_group", 0, delete_group(Machine, group_id, o))

FindUserByUsername(t, username) ==
  /\ CanCall(t) /\ ReadFree
  /\ UNCHANGED vars

FindUserByEmail(t, email) ==
  /\ CanCall(t) /\ ReadFree
  /\ UNCHANGED vars

GetAllUsers(t) ==
  /\ CanCall(t) /\ ReadFree
  /\ UNCHANGED vars

FindGroupBySamAccountName(t, sam) ==
  /\ CanCall(t) /\ ReadFree
  /\ UNCHANGED vars

FindGroupsByMember(t, user_id, ord) ==
  /\ CanCall(t) /\ ReadFree
  /\ UNCHANGED vars

\* seed: a directory file as the service leaves it when every write of a
\* call reaches the store: one user, one group that has the user as member
SeedUser == User(1, "jdoe", Some("j@x"), None)

SeedGroup == Group(1, "Admins", <<1>>)

SeedDirectory ==
  Deserialize({<<UserKey(1), SeedUser>>,
               <<UsernameIndexKey("jdoe"), 1>>,
               <<EmailIndexKey("j@x"), 1>>,
               <<AllUsersKey, <<1>>>>,
               <<GroupKey(1), SeedGroup>>,
               <<SamIndexKey("ADMINS"), 1>>,
               <<MemberIndexKey(1), {1}>>,
               <<AllGroupsKey, <<1>>>>})

SeedDirFiles == {MissingFile, SnapshotFile(1, 1, SeedDirectory)}

InitDir ==
  /\ file \in SeedDirFiles
  /\ InitCommon

\* the destructor's flush (the only flush the service reaches without the
\* write guard held)
DropSteps ==
  \/ \E t \in Threads : FlushLock(t)
  \/ \E t \in Threads : FlushOpen(t)
  \/ \E t \in Threads : FlushNonce(t)
  \/ \E t \in Threads : FlushBody(t)
  \/ \E t \in Threads : FlushSync(t)
  \/ \E t \in Threads : FlushIoError(t)
  \/ \E t \in Threads, n \in 1..(NonceLen - 1) : FlushShortNonce(t, n)
  \/ \E t \in Threads : FlushShortBody(t)

NextDir ==
  \/ \E k \in MasterKeys : Open(k)
  \/ Crash
  \/ \E t \in Threads : DropStart(t)
  \/ DropSteps
  \/ \E t \in Threads, o \in SelfLockOutcomes :
       \E id \in UserIds, n \in Usernames,
          e \in {None} \cup {Some(x) : x \in Emails} :
         CreateUser(t, User(id, n, e, None), o)
  \/ \E t \in Threads, o \in SelfLockOutcomes, id \in UserIds :
       \E n \in {None} \cup {Some(x) : x \in Usernames},
          d \in {None} \cup {Some(x) : x \in DisplayNames} :
         RenameUser(t, id, n, d, o)
  \/ \E t \in Threads, o \in SelfLockOutcomes, id \in UserIds :
       \E ord \in GroupOrders : DeleteUser(t, id, o, ord)
  \/ \E t \in Threads, o \in SelfLockOutcomes :
       \E id \in GroupIds, sam \in Sams,
          members \in MemberLists :
         CreateGroup(t, Group(id, sam, members), o)
  \/ \E t \in Threads, o \in SelfLockOutcomes, g \in GroupIds, u \in UserIds :
       AddMemberToGroup(t, g, u, o)
  \/ \E t \in Threads, o \in SelfLockOutcomes, g \in GroupIds, u \in UserIds :
       RemoveMemberFromGroup(t, g, u, o)
  \/ \E t \in Threads, o \in SelfLockOutcomes, g \in GroupIds :
       DeleteGroup(t, g, o)
  \/ \E t \in Threads, n \in Usernames : FindUserByUsername(t, n)
  \/ \E t \in Threads, e \in Emails : FindUserByEmail(t, e)
  \/ \E t \in Threads : GetAllUsers(t)
  \/ \E t \in Threads, sam \in Sams : FindGroupBySamAccountName(t, sam)
  \/ \E t \in Threads, u \in UserIds :
       \E ord \in GroupOrders : FindGroupsByMember(t, u, ord)

SpecDir == InitDir /\ [][NextDir]_vars

\* ------------------------------------- the service on OUs and policies
\* the OUs a caller passes to create_ou (nothing keeps a caller from passing
\* an id or a DN that is stored)
NewOus ==
  {OrganizationalUnit(id, dn, parent) :
     id \in OuIds, dn \in Dns, parent \in {None, Some(1)}}

\* the policies a caller passes to create_gpo; Uuid::new_v4 gives an id no
\* stored policy carries (the least is taken)
NewGpos ==
  {GroupPolicy(id, name, None, version, target, FALSE, 0, linked_to) :
     id \in {i \in GpoIds :
               /\ GpoKey(i) \notin DOMAIN cache
               /\ \A j \in 1..(i - 1) : GpoKey(j) \in DOMAIN cache},
     name \in {"", "P"},
     version \in {0, 1},
     target \in {TargetAll, TargetOu(1)},
     linked_to \in {<<>>, <<1>>}}

CreateOu(t, ou, o) ==
  /\ CanCall(t) /\ ReadFree
  /\ ou \in NewOus
  /\ DirCall(t, "create_ou", 0, create_ou(Machine, ou, o))

DeleteOu(t, ou_id, o) ==
  /\ CanCall(t) /\ ReadFree
  /\ DirCall(t, "delete_ou", 0, delete_ou(Machine, ou_id, o))

SetBlockInheritance(t, ou_id, block, o) ==
  /\ CanCall(t) /\ ReadFree
  /\ DirCall(t, "set_block_inheritance", 0,
             set_block_inheritance(Machine, ou_id, block, o))

CreateGpo(t, gpo, o) ==
  /\ CanCall(t) /\ ReadFree
  /\ gpo \in NewGpos
  /\ DirCall(t, "create_gpo", 0, create_gpo(Machine, gpo, o))

LinkGpoToOu(t, gpo_id, ou_id, o) ==
  /\ CanCall(t) /\ ReadFree
  /\ DirCall(t, "link_gpo_to_ou", 0,
             link_gpo_to_ou(Machine, gpo_id, ou_id, o))

UnlinkGpoFromOu(t, gpo_id, ou_id, o) ==
  /\ CanCall(t) /\ ReadFree
  /\ DirCall(t, "unlink_gpo_from_ou", 0,
             unlink_gpo_from_ou(Machine, gpo_id, ou_id, o))

SetGpoEnforced(t, ou_id, enforced, o) ==
  /\ CanCall(t) /\ ReadFree
  /\ DirCall(t, "set_gpo_enforced", 0,
             set_gpo_enforced(Machine, ou_id, enforced, o))

FindOuByDn(t, dn) ==
  /\ CanCall(t) /\ ReadFree
  /\ UNCHANGED vars

GetGpo(t, id) ==
  /\ CanCall(t) /\ ReadFree
  /\ UNCHANGED vars

\* seed: the seeded directory with one OU and one policy linked to it, as
\* create_ou and create_gpo leave them when every write reaches the store
SeedOu == OrganizationalUnit(1, "OU=a", None)

SeedGpo == GroupPolicy(1, "P", None, 1, TargetAll, FALSE, 0, <<1>>)

SeedOuDirectory ==
  Deserialize(Serialize(SeedDirectory)
              \cup {<<OuKey(1), SeedOu>>,
                    <<DnIndexKey("OU=a"), 1>>,
                    <<AllOusKey, <<1>>>>,
                    <<GpoKey(1), SeedGpo>>,
                    <<GpoLinkKey(1), {1}>>})

SeedOuFiles == {MissingFile, SnapshotFile(1, 1, SeedOuDirectory)}

InitOu ==
  /\ file \in SeedOuFiles
  /\ InitCommon

NextOu ==
  \/ \E k \in MasterKeys : Open(k)
  \/ Crash
  \/ \E t \in Threads : DropStart(t)
  \/ DropSteps
  \/ \E t \in Threads, o \in SelfLockOutcomes :
       \E id \in GroupIds, sam \in Sams,
          members \in MemberLists :
         CreateGroup(t, Group(id, sam, members), o)
  \/ \E t \in Threads, o \in SelfLockOutcomes, g \in GroupIds :
       DeleteGroup(t, g, o)
  \/ \E t \in Threads, o \in SelfLockOutcomes :
       \E id \in OuIds, dn \in Dns, parent \in {None, Some(1)} :
         CreateOu(t, OrganizationalUnit(id, dn, parent), o)
  \/ \E t \in Threads, o \in SelfLockOutcomes, x \in OuIds :
       DeleteOu(t, x, o)
  \/ \E t \in Threads, o \in SelfLockOutcomes, x \in OuIds :
       \E block \in BOOLEAN : SetBlockInheritance(t, x, block, o)
  \/ \E t \in Threads, o \in SelfLockOutcomes :
       \E id \in GpoIds, name \in {"", "P"}, version \in {0, 1},
          target \in {TargetAll, TargetOu(1)},
          linked_to \in {<<>>, <<1>>} :
         CreateGpo(t, GroupPolicy(id, name, None, version, target, FALSE, 0,
                                  linked_to), o)
  \/ \E t \in Threads, dn \in Dns : FindOuByDn(t, dn)
  \/ \E t \in Threads, g \in GpoIds : GetGpo(t, g)

\* links: the seeded directory, its policy linked to OU 1 either through
\* linked_to at create_gpo or through link_gpo_to_ou
SeedLinkedOu ==
  update_gplink([SeedOu EXCEPT !.linked_gpos = <<1>>, !.enforced = TRUE])

SeedLinkedGpo == GroupPolicy(1, "P", None, 1, TargetAll, FALSE, 0, <<>>)

SeedLinkedDirectory ==
  Deserialize(Serialize(SeedDirectory)
              \cup {<<OuKey(1), SeedLinkedOu>>,
                    <<DnIndexKey("OU=a"), 1>>,
                    <<AllOusKey, <<1>>>>,
                    <<GpoKey(1), SeedLinkedGpo>>,
                    <<GpoLinkKey(1), {1}>>})

SeedLinkFiles ==
  {SnapshotFile(1, 1, SeedOuDirectory), SnapshotFile(1, 1, SeedLinkedDirectory)}

InitLink ==
  /\ file \in SeedLinkFiles
  /\ InitCommon

NextLink ==
  \/ \E k \in MasterKeys : Open(k)
  \/ Crash
  \/ \E t \in Threads : DropStart(t)
  \/ DropSteps
  \/ \E t \in Threads, o \in SelfLockOutcomes :
       \E id \in GpoIds, name \in {"", "P"}, version \in {0, 1},
          target \in {TargetAll, TargetOu(1)},
          linked_to \in {<<>>, <<1>>} :
         CreateGpo(t, GroupPolicy(id, name, None, version, target, FALSE, 0,
                                  linked_to), o)
  \/ \E t \in Threads, o \in SelfLockOutcomes, g \in GpoIds, x \in OuIds :
       LinkGpoToOu(t, g, x, o)
  \/ \E t \in Threads, o \in SelfLockOutcomes, g \in GpoIds, x \in OuIds :
       UnlinkGpoFromOu(t, g, x, o)
  \/ \E t \in Threads, o \in SelfLockOutcomes, x \in OuIds :
       \E block \in BOOLEAN : SetBlockInheritance(t, x, block, o)
  \/ \E t \in Threads, o \in SelfLockOutcomes, x \in OuIds :
       \E enforced \in BOOLEAN : SetGpoEnforced(t, x, enforced, o)

SpecLink == InitLink /\ [][NextLink]_vars

SpecOu == InitOu /\ [][NextOu]_vars

\* C1: round trip. When the store is closed (dropped, its flush meeting no
\* I/O error) the file decrypts under the store's key to exactly the cache,
\* which holds the last value passed to set for every key written and no
\* entry for a key never written or removed; so a reopen with the same key
\* reads every such value back.
C1_RoundTrip ==
  [][(db = "open" /\ db' = "none" /\ lastClose'.how = "drop"
        /\ lastClose'.flush # "Io")
       => /\ load(file', dbkey).r = "Ok"
          /\ \A k \in RawKeys :
               MapGet(load(file', dbkey).data, k) = MapGet(cache, k)]_vars

\* C2: every set call on an unpoisoned store returns: no thread inside set
\* is left waiting for the cache lock forever, and none dies in it.
C2_SetReturns ==
  \A t \in Threads :
    loc[t].via = "set" => pc[t] \notin {"deadlocked", "panicked"}

\* C3: open of a complete snapshot written under another key fails with
\* Decryption and loads nothing; a missing or empty file opens as the empty
\* map; a non-empty file shorter than the nonce is an error.
C3_OpenErrors ==
  [][db = "none" =>
       /\ (file.exists /\ file.ct.state = "full" /\ file.ct.key # openKey')
            => (openRes' = "Decryption" /\ db' = "none" /\ cache' = EmptyMap)
       /\ (~file.exists \/ FileLen(file) = 0)
            => (openRes' = "Ok" /\ db' = "open" /\ cache' = EmptyMap)
       /\ (file.exists /\ FileLen(file) > 0 /\ FileLen(file) < NonceLen)
            => (openRes' # "Ok" /\ db' = "none")]_vars

\* C3 witness: an open with the wrong key was refused on a good snapshot
C3_WrongKeyRefused ==
  /\ db = "none"
  /\ openRes = "Decryption"
  /\ file.ct.state = "full"
  /\ file.ct.nonce = file.nonce
  /\ file.ct.key # openKey
  /\ file.ct.data # {}

\* C4: flush replaces the file atomically: while a thread is inside flush,
\* every step leaves the file readable under the store's key as what it
\* held before the step or as the snapshot being written.
C4_FlushAtomic ==
  [][\A t \in Threads :
       pc[t] \in FlushPcs =>
         \/ load(file', dbkey) = load(file, dbkey)
         \/ load(file', dbkey) =
              [data |-> Deserialize(loc[t].plain), r |-> "Ok"]]_vars

\* C5: flush holds the cache lock exclusively: never two threads inside it.
C5_FlushExclusive ==
  Cardinality({t \in Threads : pc[t] \in FlushPcs}) <= 1

\* ------------------------------------------------- claims on the directory
\* what a call of the service can return
\* ------------------------------------------------ GPO resolution as steps
\* how many resolutions may be in progress at once
MaxWalkers == 1

\* a resolution in progress: which call it is, the user it is for (None for
\* get_effective_gpos_for_ou), and the locals of the loop
WalkLoc(via, user, w) == [via |-> via, user |-> user, w |-> w]

\* the walk of a user that has no organizational_unit: the loop is skipped
NoWalk == [Walk(0) EXCEPT !.current_ou_id = None]

CanWalk(t) ==
  /\ CanCall(t) /\ ReadFree
  /\ Cardinality({s \in Threads : pc[s] = "walk"}) < MaxWalkers

\* get_effective_gpos_for_ou(ou_id) is called: lines 655-657
GetEffectiveGposForOu(t, ou_id) ==
  /\ CanWalk(t)
  /\ pc' = [pc EXCEPT ![t] = "walk"]
  /\ loc' = [loc EXCEPT ![t] =
               WalkLoc("get_effective_gpos_for_ou", None, Walk(ou_id))]
  /\ res' = Result("get_effective_gpos_for_ou", "called", ou_id)
  /\ UNCHANGED <<file, db, dbkey, cache, writer, readers, poisoned, openRes,
                 openKey, lastClose>>

\* get_effective_gpos_for_user(user_id) is called: lines 707-718, up to the
\* loop of the walk from the user's OU
GetEffectiveGposForUser(t, user_id) ==
  /\ CanWalk(t)
  /\ LET user == get_user(Machine, user_id) IN
       IF user = None
         THEN /\ res' = Result("get_effective_gpos_for_user", "NotFound",
                               <<>>)
              /\ UNCHANGED <<pc, loc>>
         ELSE /\ pc' = [pc EXCEPT ![t] = "walk"]
              /\ loc' = [loc EXCEPT ![t] =
                   WalkLoc("get_effective_gpos_for_user", user,
                           IF user[1].organizational_unit = None
                             THEN NoWalk
                             ELSE Walk(user[1].organizational_unit[1]))]
              /\ res' = Result("get_effective_gpos_for_user", "called",
                               user_id)
  /\ UNCHANGED <<file, db, dbkey, cache, writer, readers, poisoned, openRes,
                 openKey, lastClose>>

\* one pass of the loop of the walk
WalkStep(t, ord) ==
  /\ db = "open" /\ ReadFree
  /\ pc[t] = "walk"
  /\ InLoop(loc[t].w)
  /\ loc' = [loc EXCEPT ![t].w = walk_step(Machine, @, ord)]
  /\ UNCHANGED <<file, db, dbkey, cache, writer, readers, poisoned, pc, res,
                 openRes, openKey, lastClose>>

\* the loop is over: the rest of the call, and its return
WalkReturn(t, dord) ==
  /\ db = "open" /\ ReadFree
  /\ pc[t] = "walk"
  /\ ~InLoop(loc[t].w)
  /\ LET r == IF loc[t].user = None
                THEN walk_result(loc[t].w)
                ELSE user_result(Machine, loc[t].user[1],
                                 walk_result(loc[t].w), dord)
     IN res' = Result(loc[t].via, r.out, r.gpos)
  /\ pc' = [pc EXCEPT ![t] = "idle"]
  /\ loc' = [loc EXCEPT ![t] = NoLoc]
  /\ UNCHANGED <<file, db, dbkey, cache, writer, readers, poisoned, openRes,
                 openKey, lastClose>>

\* ----------------------------------------------------- seeds: OU graphs
\* an id under which no OU is stored: a parent pointer to it dangles
NoOu == NumOus + 1

\* the id of the domain of the seeded user
DomainId == NumOus + 2

\* the id of the group of the seeded user
UserGroupId == NumOus + 3

\* the three policies of the inheritance scenario
GpoA == GroupPolicy(1, "A", None, 1, TargetAll, FALSE, 10, <<1, DomainId>>)
GpoB == GroupPolicy(2, "B", None, 1, TargetAll, FALSE, 5, <<2>>)
GpoC == GroupPolicy(3, "C", None, 1, TargetAll, TRUE, 20, <<1, UserGroupId>>)

\* every assignment of parent pointers: none, a stored OU (itself
\* included), or an OU that is not stored
ParentMaps == [OuIds -> {None} \cup {Some(i) : i \in OuIds \cup {NoOu}}]

\* how many OUs of a seed carry block_inheritance
MaxBlocked == 1

BlockMaps ==
  {blocks \in [OuIds -> BOOLEAN] :
     Cardinality({i \in OuIds : blocks[i]}) <= MaxBlocked}

SeedOuOf(i, parents, blocks) ==
  update_gpoptions(
    [OrganizationalUnit(i, IF i = 1 THEN "OU=a" ELSE "OU=b", parents[i])
       EXCEPT !.block_inheritance = blocks[i]])

\* a directory as create_user, create_group, create_ou and create_gpo leave
\* it: user 1 in OU 2, in the domain and in the group, user 2 in none; A
\* and C linked to OU 1, B to OU 2, A to the domain and C to the group as
\* well
SeedGpoDirectory(parents, blocks) ==
  Deserialize(
    {<<UserKey(1), [SeedUser EXCEPT !.organizational_unit = Some(2),
                                    !.domains = <<DomainId>>]>>,
     <<UsernameIndexKey("jdoe"), 1>>,
     <<EmailIndexKey("j@x"), 1>>,
     <<UserKey(2), User(2, "alice", None, None)>>,
     <<UsernameIndexKey("alice"), 2>>,
     <<AllUsersKey, <<1, 2>>>>,
     <<GroupKey(UserGroupId), Group(UserGroupId, "Admins", <<1>>)>>,
     <<SamIndexKey("ADMINS"), UserGroupId>>,
     <<MemberIndexKey(1), {UserGroupId}>>,
     <<AllGroupsKey, <<UserGroupId>>>>,
     <<DnIndexKey("OU=a"), 1>>,
     <<DnIndexKey("OU=b"), NumOus>>,
     <<AllOusKey, [i \in OuIds |-> i]>>,
     <<GpoKey(1), GpoA>>, <<GpoKey(2), GpoB>>, <<GpoKey(3), GpoC>>,
     <<GpoLinkKey(1), {1, 3}>>,
     <<GpoLinkKey(2), {2}>>,
     <<GpoLinkKey(DomainId), {1}>>,
     <<GpoLinkKey(UserGroupId), {3}>>}
    \cup {<<OuKey(i), SeedOuOf(i, parents, blocks)>> : i \in OuIds})

SeedGpoFiles ==
  {SnapshotFile(1, 1, SeedGpoDirectory(parents, blocks)) :
     parents \in ParentMaps, blocks \in BlockMaps}

InitGpo ==
  /\ file \in SeedGpoFiles
  /\ InitCommon

NextGpo ==
  \/ \E k \in MasterKeys : Open(k)
  \/ \E t \in Threads, ou_id \in OuIds \cup {NoOu} :
       GetEffectiveGposForOu(t, ou_id)
  \/ \E t \in Threads, user_id \in UserIds \cup {NumUsers + 1} :
       GetEffectiveGposForUser(t, user_id)
  \/ \E t \in Threads, ord \in GpoOrders : WalkStep(t, ord)
  \/ \E t \in Threads, dord \in GpoOrders : WalkReturn(t, dord)

SpecGpo == InitGpo /\ [][NextGpo]_vars

\* the runtime polls every task that can proceed, so a resolution in
\* progress takes its next step
SpecGpoFair ==
  /\ SpecGpo
  /\ \A t \in Threads :
       WF_vars(\E ord \in GpoOrders : WalkStep(t, ord) \/ WalkReturn(t, ord))

\* ----------------------------------------------------------------- claims

Returned == {"Ok", "AlreadyExists", "NotFound", "InvalidInput", "DbError"}

StoredUsers == {cache[k] : k \in {x \in DOMAIN cache : x[1] = "user"}}

StoredGroups == {cache[k] : k \in {x \in DOMAIN cache : x[1] = "group"}}

\* the set stored at member_index:<u>, empty when the key is absent
MemberIndexOf(u) ==
  IF MemberIndexKey(u) \in DOMAIN cache THEN cache[MemberIndexKey(u)] ELSE {}

GroupsHolding(u) == {g.id : g \in {h \in StoredGroups : Contains(h.members, u)}}

\* C6: member_index invariant. After every mutation of groups or of their
\* members that has returned (create_group, add_member_to_group,
\* remove_member_from_group, delete_group, delete_user), for every user u
\* the set stored at member_index:<u> is the set of ids of the stored groups
\* whose members list contains u.
C6_MemberIndex ==
  (/\ res.op \in {"create_group", "add_member_to_group",
                  "remove_member_from_group", "delete_group", "delete_user"}
   /\ res.tag \in Returned)
    => \A u \in UserIds : MemberIndexOf(u) = GroupsHolding(u)

\* C7: username_index and email_index are bijections onto live users. After
\* every create_user, rename_user or delete_user that has returned, every
\* index key maps to the id of a stored user whose current username (email)
\* is that key, and every stored user is reached through the index key of
\* its username and, if it has one, of its email.
C7_UserIndexes ==
  (/\ res.op \in {"create_user", "rename_user", "delete_user"}
   /\ res.tag \in Returned)
    => /\ \A k \in DOMAIN cache :
            /\ k[1] = "username_index" =>
                 /\ UserKey(cache[k]) \in DOMAIN cache
                 /\ cache[UserKey(cache[k])].username = k[2]
            /\ k[1] = "email_index" =>
                 /\ UserKey(cache[k]) \in DOMAIN cache
                 /\ cache[UserKey(cache[k])].email = Some(k[2])
       /\ \A u \in StoredUsers :
            /\ MapGet(cache, UsernameIndexKey(u.username)) = Some(u.id)
            /\ u.email # None =>
                 MapGet(cache, EmailIndexKey(u.email[1])) = Some(u.id)

\* C8: create_user of a user whose username and email no stored user has
\* returns Ok, and after it find_user_by_username and find_user_by_email
\* return the record; create_user with the username or the email of a stored
\* user returns AlreadyExists and leaves every key of the store unchanged.
C8_CreateUser ==
  [][(res' # res /\ res'.op = "create_user") =>
       LET u == res'.val
           dup == \/ find_user_by_username(Machine, u.username) # None
                  \/ /\ u.email # None
                     /\ find_user_by_email(Machine, u.email[1]) # None
       IN /\ dup => (res'.tag = "AlreadyExists" /\ cache' = cache)
          /\ ~dup =>
               /\ res'.tag = "Ok"
               /\ find_user_by_username(Machine', u.username) = Some(u)
               /\ u.email # None =>
                    find_user_by_email(Machine', u.email[1]) = Some(u)]_vars

\* C9: usernames and emails are case-folded. On an open store every stored
\* user is returned by find_user_by_username / find_user_by_email for every
\* case variant of its username / email, and create_user with a username or
\* an email that differs at most in letter case from a stored user's returns
\* AlreadyExists.
C9_CaseFolded ==
  [][/\ (db' = "open" /\ ~poisoned') =>
          \A u \in StoredUsers' :
            /\ \A n \in Usernames :
                 to_uppercase(n) = to_uppercase(u.username)
                   => find_user_by_username(Machine', n) = Some(u)
            /\ \A e \in Emails :
                 (u.email # None /\ to_uppercase(e) = to_uppercase(u.email[1]))
                   => find_user_by_email(Machine', e) = Some(u)
     /\ (/\ res' # res /\ res'.op = "create_user" /\ ~poisoned
         /\ \E v \in StoredUsers :
              \/ to_uppercase(v.username) = to_uppercase(res'.val.username)
              \/ /\ v.email # None /\ res'.val.email # None
                 /\ to_uppercase(v.email[1]) = to_uppercase(res'.val.email[1]))
          => res'.tag = "AlreadyExists"]_vars

\* C10: sam_account_name_index is a bijection onto live groups under
\* upper-casing. After every create_group or delete_group that has returned,
\* no two stored groups have SAM names equal after upper-casing, every
\* stored group is the one its upper-cased SAM name is indexed to (so every
\* case variant finds it), no index key points to a group that is not
\* stored, and a create_group with the SAM name (up to case) of another
\* stored group has returned AlreadyExists.
C10_SamIndex ==
  (/\ res.op \in {"create_group", "delete_group"}
   /\ res.tag \in Returned)
    => /\ \A g, h \in StoredGroups :
            to_uppercase(g.sam_account_name) = to_uppercase(h.sam_account_name)
              => g = h
       /\ \A g \in StoredGroups :
            MapGet(cache, SamIndexKey(to_uppercase(g.sam_account_name)))
              = Some(g.id)
       /\ \A k \in DOMAIN cache :
            k[1] = "sam_account_name_index" => GroupKey(cache[k]) \in DOMAIN cache
       /\ (/\ res.op = "create_group"
           /\ \E h \in StoredGroups :
                /\ h.id # res.val.id
                /\ to_uppercase(h.sam_account_name)
                     = to_uppercase(res.val.sam_account_name))
            => res.tag = "AlreadyExists"

\* C11: all_users_index lists exactly the live users. After every
\* create_user, rename_user or delete_user that has returned,
\* all_users_index holds the id of every stored user once and no other id,
\* and get_all_users returns every stored user once and nothing else.
C11_AllUsersIndex ==
  (/\ res.op \in {"create_user", "rename_user", "delete_user"}
   /\ res.tag \in Returned)
    => LET ids == IF AllUsersKey \in DOMAIN cache THEN cache[AllUsersKey]
                  ELSE <<>>
           all == get_all_users(Machine)
       IN /\ {ids[i] : i \in 1..Len(ids)} = {u.id : u \in StoredUsers}
          /\ \A i, j \in 1..Len(ids) : ids[i] = ids[j] => i = j
          /\ {all[i] : i \in 1..Len(all)} = StoredUsers
          /\ \A i, j \in 1..Len(all) : all[i] = all[j] => i = j

StoredOus == {cache[k] : k \in {x \in DOMAIN cache : x[1] = "ou"}}

StoredGpos == {cache[k] : k \in {x \in DOMAIN cache : x[1] = "gpo"}}

\* the list stored at an all_*_index key, empty when the key is absent
IndexList(key) == IF key \in DOMAIN cache THEN cache[key] ELSE <<>>

\* the list holds exactly the ids, each once
ListsExactly(list, ids) ==
  /\ {list[i] : i \in 1..Len(list)} = ids
  /\ \A i, j \in 1..Len(list) : list[i] = list[j] => i = j

\* C12: all_groups_index and all_ous_index list exactly the live ids. After
\* every create_group, delete_group, create_ou or delete_ou that has
\* returned (create_ou may be called for an id or DN that is stored),
\* all_groups_index holds the id of every stored group once and no other
\* id, and all_ous_index the id of every stored OU once and no other id.
C12_AllGroupsOusIndex ==
  (/\ res.op \in {"create_group", "delete_group", "create_ou", "delete_ou"}
   /\ res.tag \in Returned)
    => /\ ListsExactly(IndexList(AllGroupsKey), {g.id : g \in StoredGroups})
       /\ ListsExactly(IndexList(AllOusKey), {x.id : x \in StoredOus})

\* C13: create_gpo records the policy. On an open store that takes calls,
\* create_gpo of a policy that passes validate returns Ok, and after it the
\* record is stored at gpo:<id>, the id is in gpo_link:<t> for every t of
\* linked_to, and all_gpos_index holds the id of every stored policy once
\* and no other id.
C13_CreateGpo ==
  (db = "open" /\ ~Dropping /\ ReadFree) =>
    \A gpo \in NewGpos, o \in SelfLockOutcomes :
      validate(gpo) = "Ok" =>
        LET m == create_gpo(Machine, gpo, o)
            all == IF <<"all_gpos_index", 0>> \in DOMAIN m.c
                     THEN m.c[<<"all_gpos_index", 0>>] ELSE <<>>
        IN /\ m.st = "ret" /\ m.out = "Ok"
           /\ MapGet(m.c, GpoKey(gpo.id)) = Some(gpo)
           /\ \A i \in 1..Len(gpo.linked_to) :
                /\ GpoLinkKey(gpo.linked_to[i]) \in DOMAIN m.c
                /\ gpo.id \in m.c[GpoLinkKey(gpo.linked_to[i])]
           /\ ListsExactly(all, {k[2] : k \in {x \in DOMAIN m.c :
                                                 x[1] = "gpo"}})

\* C14: create_gpo validates before it writes. On an open store that takes
\* calls, create_gpo of a policy that fails validate (empty name, version 0,
\* or linked_to empty while target is not All) returns an error and leaves
\* the store as it was; and every stored policy has linked_to non-empty or
\* target All.
C14_CreateGpoValidates ==
  /\ (db = "open" /\ ~Dropping /\ ReadFree) =>
       \A gpo \in NewGpos, o \in SelfLockOutcomes :
         validate(gpo) = "Err" =>
           LET m == create_gpo(Machine, gpo, o)
           IN /\ m.st = "ret" /\ m.out \in Returned \ {"Ok"}
              /\ m.c = cache
  /\ \A g \in StoredGpos : g.linked_to # <<>> \/ is_all(g.target)

\* C15: create_user followed by delete_user restores the index state. On an
\* open, unpoisoned store with no call in progress, delete_user of a stored
\* user returns Ok, and afterwards the store has no username_index key and no
\* email_index key for the user, no entry for its id in all_users_index, no
\* member_index key for its id, no group whose members contains the id, and
\* no user:<id> record.
C15_DeleteUserRestores ==
  (db = "open" /\ ~poisoned /\ ~Dropping /\ ReadFree) =>
    \A u \in StoredUsers, o \in SelfLockOutcomes, ord \in GroupOrders :
      LET m == delete_user(Machine, u.id, o, ord)
          all == IF AllUsersKey \in DOMAIN m.c THEN m.c[AllUsersKey] ELSE <<>>
      IN /\ m.st = "ret" /\ m.out = "Ok"
         /\ \A k \in {x \in DOMAIN m.c :
                      x[1] \in {"username_index", "email_index"}} :
              m.c[k] # u.id
         /\ ~Contains(all, u.id)
         /\ MemberIndexKey(u.id) \notin DOMAIN m.c
         /\ \A k \in {x \in DOMAIN m.c : x[1] = "group"} :
              ~Contains(m.c[k].members, u.id)
         /\ UserKey(u.id) \notin DOMAIN m.c

\* the ids of the groups find_groups_by_member returns for user_id
FoundGroupIds(m, user_id, ord) ==
  LET found == find_groups_by_member(m, user_id, ord)
  IN {found[i].id : i \in 1..Len(found)}

\* C16: membership round trip with no concurrent mutator. On an open,
\* unpoisoned store with no call in progress, for every stored group g and
\* every user id u: add_member_to_group(g, u) returns Ok and afterwards
\* find_groups_by_member(u) contains g; a second identical call returns Ok
\* and changes nothing; a following remove_member_from_group(g, u) returns Ok
\* and afterwards find_groups_by_member(u) does not contain g and g.members
\* does not contain u.
C16_MembershipRoundTrip ==
  (db = "open" /\ ~poisoned /\ ~Dropping /\ ReadFree) =>
    \A g \in StoredGroups, u \in UserIds, o \in SelfLockOutcomes,
       ord \in GroupOrders :
      LET m1 == add_member_to_group(Machine, g.id, u, o)
          m2 == add_member_to_group([m1 EXCEPT !.st = "run"], g.id, u, o)
          m3 == remove_member_from_group([m1 EXCEPT !.st = "run"], g.id, u, o)
      IN /\ m1.st = "ret" /\ m1.out = "Ok"
         /\ g.id \in FoundGroupIds(m1, u, ord)
         /\ m2.st = "ret" /\ m2.out = "Ok" /\ m2.c = m1.c
         /\ m3.st = "ret" /\ m3.out = "Ok"
         /\ g.id \notin FoundGroupIds(m3, u, ord)
         /\ ~Contains(get_group(m3, g.id)[1].members, u)

\* for every OU, an order in which the HashSet of its GPO ids is iterated
OuOrders == [OuIds -> GpoOrders]

\* the ids stored at gpo_link:<ou_id>, none when the key is absent
LinksOf(ou_id) ==
  IF GpoLinkKey(ou_id) \in DOMAIN cache THEN cache[GpoLinkKey(ou_id)] ELSE {}

\* the inheritance scenario: child's parent is root, root has no parent,
\* A and C are linked to root and B to child
Scenario(child, root) ==
  /\ child # root
  /\ OuKey(child) \in DOMAIN cache /\ OuKey(root) \in DOMAIN cache
  /\ cache[OuKey(child)].parent = Some(root)
  /\ cache[OuKey(root)].parent = None
  /\ ~cache[OuKey(root)].block_inheritance
  /\ get_gpo(Machine, GpoA.id) = Some(GpoA)
  /\ get_gpo(Machine, GpoB.id) = Some(GpoB)
  /\ get_gpo(Machine, GpoC.id) = Some(GpoC)
  /\ LinksOf(root) = {GpoA.id, GpoC.id}
  /\ LinksOf(child) = {GpoB.id}

\* C17: GPO inheritance order. On an open store holding the inheritance
\* scenario with no block_inheritance, get_effective_gpos_for_ou(child)
\* returns exactly the sequence [C, B, A].
C17_InheritanceOrder ==
  (db = "open" /\ ~poisoned) =>
    \A child, root \in OuIds :
      (Scenario(child, root) /\ ~cache[OuKey(child)].block_inheritance) =>
        \A ords \in OuOrders :
          get_effective_gpos_for_ou(Machine, child, ords)
            = GpoOk(<<GpoC, GpoB, GpoA>>)

\* C18: block_inheritance on an OU keeps non-enforced ancestor GPOs out of
\* that OU's effective list. On an open store, for every stored OU x with
\* block_inheritance = true for which get_effective_gpos_for_ou(x) returns
\* Ok, the list holds every stored GPO linked to x and, beyond those, only
\* enforced GPOs; in the inheritance scenario with child.block_inheritance =
\* true the result for child is [B, C].
C18_BlockInheritance ==
  (db = "open" /\ ~poisoned) =>
    \A x \in OuIds :
      (/\ OuKey(x) \in DOMAIN cache
       /\ cache[OuKey(x)].block_inheritance) =>
        \A ords \in OuOrders :
          LET r == get_effective_gpos_for_ou(Machine, x, ords)
              own == find_gpos_for_ou(Machine, x, ords[x])
          IN /\ r.out = "Ok" =>
                  /\ \A i \in 1..Len(own) : Contains(r.gpos, own[i])
                  /\ \A i \in 1..Len(r.gpos) :
                       r.gpos[i].enforced \/ Contains(own, r.gpos[i])
             /\ \A root \in OuIds :
                  Scenario(x, root) => r = GpoOk(<<GpoB, GpoC>>)

\* the OUs on the parent chain from current on, when the chain is acyclic
\* and every OU on it is stored; the empty set otherwise
RECURSIVE chain_of(_, _)
chain_of(current, seen) ==
  IF current = None THEN seen
  ELSE IF current[1] \in seen \/ OuKey(current[1]) \notin DOMAIN cache
    THEN {}
  ELSE chain_of(cache[OuKey(current[1])].parent, seen \cup {current[1]})

\* C19: an enforced GPO cannot be suppressed by a downstream
\* block_inheritance. On an open store, for every stored OU x whose parent
\* chain is acyclic with every OU stored, get_effective_gpos_for_ou(x)
\* returns Ok, and every enforced GPO linked to x or to an ancestor of x is
\* in the list, whatever block_inheritance flags are set.
C19_EnforcedNotSuppressed ==
  (db = "open" /\ ~poisoned) =>
    \A x \in OuIds :
      chain_of(Some(x), {}) # {} =>
        \A ords \in OuOrders :
          LET r == get_effective_gpos_for_ou(Machine, x, ords)
          IN /\ r.out = "Ok"
             /\ \A a \in chain_of(Some(x), {}) :
                  LET gpos == find_gpos_for_ou(Machine, a, ords[a])
                  IN \A i \in 1..Len(gpos) :
                       gpos[i].enforced => Contains(r.gpos, gpos[i])

\* the resolutions in progress
Walking(t) == pc[t] = "walk"

\* C20: GPO resolution terminates. For every set of stored OUs and every
\* assignment of parent pointers (acyclic, cyclic, or pointing to an OU that
\* is not stored), every pass of the loop of get_effective_gpos_for_ou and
\* get_effective_gpos_for_user either loads an OU the walk has not visited
\* before or returns InvalidInput without loading anything, the walk never
\* holds more than the stored OUs and one missing one, and every resolution
\* in progress returns: Ok with a list, NotFound or InvalidInput.
C20_ResolutionTerminates ==
  /\ [][\A t \in Threads :
          (Walking(t) /\ loc'[t] # loc[t]) =>
            \/ /\ Walking(t)'
               /\ loc[t].w.current_ou_id[1] \notin loc[t].w.visited_ou_ids
               /\ loc'[t].w.visited_ou_ids
                    = loc[t].w.visited_ou_ids \cup {loc[t].w.current_ou_id[1]}
               /\ Cardinality(loc'[t].w.visited_ou_ids) <= NumOus + 1
            \/ /\ Walking(t)'
               /\ loc'[t].w = [loc[t].w EXCEPT !.st = "ret",
                                               !.out = "InvalidInput"]
            \/ /\ ~Walking(t)'
               /\ ~InLoop(loc[t].w)
               /\ res'.op = loc[t].via
               /\ res'.tag \in {"Ok", "NotFound", "InvalidInput"}
               /\ res'.tag # "Ok" => res'.val = <<>>]_vars
  /\ \A t \in Threads : Walking(t) ~> ~Walking(t)

\* a resolution for a user whose OU lies on a cycle of parent pointers has
\* returned InvalidInput
C20_CycleReturned ==
  /\ res.op = "get_effective_gpos_for_user"
  /\ res.tag = "InvalidInput"
  /\ \A t \in Threads : ~Walking(t)
  /\ chain_of(Some(2), {}) = {}
  /\ \A x \in OuIds : cache[OuKey(x)].parent \notin {None, Some(NoOu)}

\* whether the parent chain from current on comes back to an OU it has
\* passed (every OU up to there being stored)
RECURSIVE has_cycle(_, _)
has_cycle(current, seen) ==
  IF current = None THEN FALSE
  ELSE IF current[1] \in seen THEN TRUE
  ELSE IF OuKey(current[1]) \notin DOMAIN cache THEN FALSE
  ELSE has_cycle(cache[OuKey(current[1])].parent, seen \cup {current[1]})

\* C21: cycle detection. On an open store, for every OU whose parent chain
\* contains a cycle, get_effective_gpos_for_ou returns InvalidInput and no
\* GPO list, whatever block_inheritance flags and GPO links the OUs of the
\* chain carry.
C21_CycleDetected ==
  (db = "open" /\ ~poisoned) =>
    \A x \in OuIds :
      has_cycle(Some(x), {}) =>
        \A ords \in OuOrders :
          get_effective_gpos_for_ou(Machine, x, ords) = GpoErr("InvalidInput")

\* the ids of a list of GPOs
IdsOf(gpos) == {gpos[i].id : i \in 1..Len(gpos)}

\* C22: get_effective_gpos_for_user for a stored user. Whenever the call
\* returns after the walk from the user's OU gave a list (or the user has no
\* OU), it returns Ok with a list in which no GPO id occurs twice, that is
\* ordered by enforced (true first) and then by order ascending, and whose
\* set of ids is the union of the ids of the OU-level list and of the stored
\* GPOs linked to user.domains[0]; GPOs linked only to the user's groups are
\* not in it. When the walk gave an error, the call returns that error.
C22_UserLevelList ==
  [][\A t \in Threads :
       (Walking(t) /\ ~Walking(t)' /\ loc[t].user # None) =>
         LET user == loc[t].user[1]
             r == walk_result(loc[t].w)
             linked == IF user.domains # <<>>
                         THEN {g \in LinksOf(user.domains[1]) :
                                 GpoKey(g) \in DOMAIN cache}
                         ELSE {}
             gpos == res'.val
         IN /\ res'.op = "get_effective_gpos_for_user"
            /\ r.out # "Ok" => (res'.tag = r.out /\ gpos = <<>>)
            /\ r.out = "Ok" =>
                 /\ res'.tag = "Ok"
                 /\ \A i, j \in 1..Len(gpos) :
                      gpos[i].id = gpos[j].id => i = j
                 /\ \A i, j \in 1..Len(gpos) :
                      i < j =>
                        \/ gpos[i].enforced /\ ~gpos[j].enforced
                        \/ /\ gpos[i].enforced = gpos[j].enforced
                           /\ gpos[i].order <= gpos[j].order
                 /\ IdsOf(gpos) = IdsOf(r.gpos) \cup linked
                 /\ \A i \in 1..Len(gpos) : cache[GpoKey(gpos[i].id)] = gpos[i]]_vars

\* the call for user 1 has returned [C, B, A]: the walk gave [B, C, A], the
\* domain A again, and the list was deduplicated and re-sorted
C22_UserListReturned ==
  /\ res.op = "get_effective_gpos_for_user"
  /\ res.tag = "Ok"
  /\ res.val = <<GpoC, GpoB, GpoA>>
  /\ UserGroupId \in MemberIndexOf(1)

\* the ids under which nothing of the kind is stored
MissingUsers == {u \in UserIds : UserKey(u) \notin DOMAIN cache}
MissingGroups == {g \in GroupIds : GroupKey(g) \notin DOMAIN cache}
MissingOus == {x \in OuIds : OuKey(x) \notin DOMAIN cache}

\* the call found nothing to change: NotFound, the store as it was
NotFoundUnchanged(m) == m = Ret(Machine, "NotFound")

\* C23: not found on mutation is NotFound. On an open, unpoisoned store with
\* no call in progress, every mutation addressed to an entity that is not
\* stored (add_member_to_group, remove_member_from_group, delete_user,
\* delete_group, delete_ou, rename_user, link_gpo_to_ou, unlink_gpo_from_ou,
\* set_block_inheritance, set_gpo_enforced) returns NotFound and leaves the
\* store unchanged, and get_user, get_group, get_ou, get_gpo and the find_*
\* reads of a missing entity return None.
C23_NotFoundOnMutation ==
  (db = "open" /\ ~poisoned /\ ~Dropping /\ ReadFree) =>
    \A o \in SelfLockOutcomes :
      /\ \A g \in MissingGroups, u \in UserIds :
           /\ NotFoundUnchanged(add_member_to_group(Machine, g, u, o))
           /\ NotFoundUnchanged(remove_member_from_group(Machine, g, u, o))
      /\ \A x \in MissingOus, g \in GpoIds, b \in BOOLEAN :
           /\ NotFoundUnchanged(link_gpo_to_ou(Machine, g, x, o))
           /\ NotFoundUnchanged(unlink_gpo_from_ou(Machine, g, x, o))
           /\ NotFoundUnchanged(set_block_inheritance(Machine, x, b, o))
           /\ NotFoundUnchanged(set_gpo_enforced(Machine, x, b, o))
      /\ \A u \in MissingUsers :
           /\ get_user(Machine, u) = None
           /\ \A ord \in GroupOrders :
                NotFoundUnchanged(delete_user(Machine, u, o, ord))
           /\ \A n \in {None} \cup {Some(x) : x \in Usernames} :
                NotFoundUnchanged(rename_user(Machine, u, n, None, o))
      /\ \A g \in MissingGroups :
           /\ get_group(Machine, g) = None
           /\ NotFoundUnchanged(delete_group(Machine, g, o))
      /\ \A x \in MissingOus :
           /\ get_ou(Machine, x) = None
           /\ NotFoundUnchanged(delete_ou(Machine, x, o))

\* C24: link_gpo_to_ou verifies that both the GPO and the OU exist. On an
\* open, unpoisoned store with no call in progress, link_gpo_to_ou(g, x)
\* with no GPO stored under g, or no OU stored under x, returns NotFound and
\* leaves the store unchanged (ou.linked_gpos, ou.gplink and gpo_link:<x>
\* included).
C24_LinkVerifiesBoth ==
  (db = "open" /\ ~poisoned /\ ~Dropping /\ ReadFree) =>
    \A g \in GpoIds, x \in OuIds, o \in SelfLockOutcomes :
      (GpoKey(g) \notin DOMAIN cache \/ OuKey(x) \notin DOMAIN cache) =>
        NotFoundUnchanged(link_gpo_to_ou(Machine, g, x, o))

\* C25: derived projections stay in sync. In every state, every OU in the
\* store (created with OrganizationalUnit::new and changed by link_gpo_to_ou,
\* unlink_gpo_from_ou, set_block_inheritance and set_gpo_enforced) has
\* gpoptions = 1 if block_inheritance else 0, and gplink = one entry
\* "[<gpo_id>;2]" (when the OU's enforced flag is set) or "[<gpo_id>;1]"
\* (otherwise) per element of linked_gpos, in order.
C25_ProjectionsInSync ==
  \A x \in StoredOus :
    /\ x.gpoptions = IF x.block_inheritance THEN 1 ELSE 0
    /\ Len(x.gplink) = Len(x.linked_gpos)
    /\ \A i \in 1..Len(x.linked_gpos) :
         x.gplink[i] = <<x.linked_gpos[i], IF x.enforced THEN 2 ELSE 1>>

\* set_gpo_enforced(1, false) has rewritten the OU that link_gpo_to_ou had
\* linked: its gplink now carries flag 1
C25_EnforcedCleared ==
  /\ res.op = "set_gpo_enforced"
  /\ OuKey(1) \in DOMAIN cache
  /\ cache[OuKey(1)].linked_gpos = <<1>>
  /\ ~cache[OuKey(1)].enforced
  /\ cache[OuKey(1)].gplink = << <<1, 1>> >>

\* the gpo_link relation on a store c: for every target t, the set at
\* gpo_link:<t> (empty when absent) is the set of the stored GPOs that list
\* t in linked_to, united with the linked_gpos of the OU t
GpoLinkInv(c) ==
  \A t \in OuIds :
    (IF GpoLinkKey(t) \in DOMAIN c THEN c[GpoLinkKey(t)] ELSE {})
      = {g \in GpoIds : GpoKey(g) \in DOMAIN c
                        /\ Contains(c[GpoKey(g)].linked_to, t)}
        \cup (IF OuKey(t) \in DOMAIN c
                THEN {c[OuKey(t)].linked_gpos[i] :
                        i \in 1..Len(c[OuKey(t)].linked_gpos)}
                ELSE {})

\* C26: gpo_link invariant. On an open, unpoisoned store with no call in
\* progress on which the gpo_link relation holds, every create_gpo,
\* link_gpo_to_ou and unlink_gpo_from_ou returns, and the relation holds on
\* the store it leaves.
C26_GpoLinkInvariant ==
  (db = "open" /\ ~poisoned /\ ~Dropping /\ ReadFree /\ GpoLinkInv(cache)) =>
    \A o \in SelfLockOutcomes :
      /\ \A gpo \in NewGpos :
           LET m == create_gpo(Machine, gpo, o)
           IN m.st = "ret" /\ GpoLinkInv(m.c)
      /\ \A g \in GpoIds, x \in OuIds :
           LET m1 == link_gpo_to_ou(Machine, g, x, o)
               m2 == unlink_gpo_from_ou(Machine, g, x, o)
           IN /\ m1.st = "ret" /\ GpoLinkInv(m1.c)
              /\ m2.st = "ret" /\ GpoLinkInv(m2.c)

\* C27: unlink_gpo_from_ou is the symmetric removal of a link. On an open,
\* unpoisoned store with no call in progress, for every stored OU x and
\* every GPO id g: when unlink_gpo_from_ou(g, x) returns Ok, g is neither in
\* x.linked_gpos nor in gpo_link:<x> nor among find_gpos_for_ou(x), whether
\* the link came from link_gpo_to_ou or from linked_to at create_gpo; and
\* for g not linked to x, link_gpo_to_ou(g, x) followed by
\* unlink_gpo_from_ou(g, x) returns Ok twice and leaves x.linked_gpos,
\* x.enforced and x.gplink as they were.
C27_UnlinkSymmetric ==
  (db = "open" /\ ~poisoned /\ ~Dropping /\ ReadFree) =>
    \A g \in GpoIds, x \in OuIds \ MissingOus, o \in SelfLockOutcomes :
      /\ LET m == unlink_gpo_from_ou(Machine, g, x, o)
         IN (m.st = "ret" /\ m.out = "Ok") =>
              /\ ~Contains(m.c[OuKey(x)].linked_gpos, g)
              /\ g \notin load_or(m, GpoLinkKey(x), {})
              /\ \A ord \in GpoOrders :
                   g \notin IdsOf(find_gpos_for_ou(m, x, ord))
      /\ (~Contains(cache[OuKey(x)].linked_gpos, g) /\ g \notin LinksOf(x)) =>
           LET m1 == link_gpo_to_ou(Machine, g, x, o)
               m2 == unlink_gpo_from_ou([m1 EXCEPT !.st = "run"], g, x, o)
           IN /\ m1.st = "ret" /\ m1.out = "Ok"
              /\ m2.st = "ret" /\ m2.out = "Ok"
              /\ m2.c[OuKey(x)].linked_gpos = cache[OuKey(x)].linked_gpos
              /\ m2.c[OuKey(x)].enforced = cache[OuKey(x)].enforced
              /\ m2.c[OuKey(x)].gplink = cache[OuKey(x)].gplink

\* u is in g.members if and only if g is in member_index:<u>, for every
\* stored group g and every user id u
MembershipInSync == \A u \in UserIds : MemberIndexOf(u) = GroupsHolding(u)

\* C28: add_member_to_group and remove_member_from_group change
\* group.members and member_index:<u> atomically with respect to the cache
\* lock. Every step of one of the two calls that starts with membership in
\* sync and leaves the cache lock free (so that another task can read the
\* cache) leaves membership in sync.
C28_MembershipAtomic ==
  [][(/\ \E t \in Threads, g \in GroupIds, u \in UserIds,
            o \in SelfLockOutcomes :
          \/ AddMemberToGroup(t, g, u, o)
          \/ RemoveMemberFromGroup(t, g, u, o)
      /\ MembershipInSync
      /\ writer' = NoThread)
       => MembershipInSync']_vars

\* the index invariants of C29: every user record has its username_index
\* entry and its all_users_index entry, member_index matches group.members,
\* gpo_link holds the linked_gpos of every OU
IndexInvariants ==
  /\ \A u \in StoredUsers :
       /\ MapGet(cache, UsernameIndexKey(u.username)) = Some(u.id)
       /\ Contains(IndexList(AllUsersKey), u.id)
  /\ MembershipInSync
  /\ \A x \in StoredOus :
       \A i \in 1..Len(x.linked_gpos) : x.linked_gpos[i] \in LinksOf(x.id)

\* C29: cancellation safety of the non-delete mutations. Every step of
\* create_user, create_group, rename_user, add_member_to_group,
\* remove_member_from_group or link_gpo_to_ou that starts on a store
\* satisfying the index invariants leaves a store satisfying them, whether
\* the call ran to its end or was cut short before it.
C29_CancellationSafe ==
  [][(/\ res'.op \in {"create_user", "create_group", "rename_user",
                      "add_member_to_group", "remove_member_from_group",
                      "link_gpo_to_ou"}
      /\ cache' # cache
      /\ db' = "open" /\ db = "open"
      /\ IndexInvariants)
       => IndexInvariants']_vars

\* C30: set semantics of membership. In every state reached by any
\* interleaving of create_group (with any members list), add_member_to_group
\* and remove_member_from_group, no stored group's members list contains the
\* same user id twice.
C30_MembersNoDuplicates ==
  \A g \in StoredGroups :
    \A i, j \in 1..Len(g.members) : g.members[i] = g.members[j] => i = j

\* ========================================================================
\* Part 3: the LDAP front end (src/ldap/mod.rs, src/ldap/filter.rs)
\* ========================================================================
\* A string of the LDAP layer is the sequence of its lexemes: each of the
\* characters ( ) & | ! = * : < > and the blank is a lexeme of its own, and
\* every maximal run of other characters (a word) is one lexeme. The
\* operations of the parser look for those characters only, so they act on
\* the lexemes as they act on the characters.

\* the words that end with "Match"
MatchWords == {"caseExactMatch"}

\* str::trim
str_trim(s) ==
  LET kept == {i \in 1..Len(s) : s[i] # " "} IN
    IF kept = {} THEN <<>>
    ELSE SubSeq(s, CHOOSE i \in kept : \A j \in kept : i <= j,
                   CHOOSE i \in kept : \A j \in kept : j <= i)

\* str::find / str::rfind of one character
find(s, ch) ==
  LET at == {i \in 1..Len(s) : s[i] = ch} IN
    IF at = {} THEN None ELSE Some(CHOOSE i \in at : \A j \in at : i <= j)

rfind(s, ch) ==
  LET at == {i \in 1..Len(s) : s[i] = ch} IN
    IF at = {} THEN None ELSE Some(CHOOSE i \in at : \A j \in at : j <= i)

\* str::ends_with
ends_with(s, suffix) ==
  /\ Len(s) >= Len(suffix)
  /\ SubSeq(s, Len(s) - Len(suffix) + 1, Len(s)) = suffix

\* str::trim_end_matches: the suffix is taken off as often as it is there
RECURSIVE trim_end_matches(_, _)
trim_end_matches(s, suffix) ==
  IF ends_with(s, suffix)
    THEN trim_end_matches(SubSeq(s, 1, Len(s) - Len(suffix)), suffix)
    ELSE s

\* str::split on one character: the pieces between its occurrences
RECURSIVE split(_, _)
split(s, ch) ==
  LET at == find(s, ch) IN
    IF at = None THEN <<s>>
    ELSE <<SubSeq(s, 1, at[1] - 1)>> \o split(SubSeq(s, at[1] + 1, Len(s)), ch)

\* enum Filter (filter.rs:7-23): the variant, then its fields
Equality(attr, value) == <<"Equality", attr, value>>
GreaterOrEqual(attr, value) == <<"GreaterOrEqual", attr, value>>
LessOrEqual(attr, value) == <<"LessOrEqual", attr, value>>
Substring(attr, initial, any, final_) == <<"Substring", attr, initial, any, final_>>
Extensible(attr, rule, dn_attrs, value) == <<"Extensible", attr, rule, dn_attrs, value>>
And(filters) == <<"And", filters>>
Or(filters) == <<"Or", filters>>
Not(filter) == <<"Not", filter>>
Present(attr) == <<"Present", attr>>

\* Result<Filter, LdapFilterError>
Ok(f) == <<"Ok", f>>
InvalidSyntax == <<"Err", "InvalidSyntax">>
IsOk(r) == r[1] = "Ok"

\* Filter::parse_substring
parse_substring(attr, pattern) ==
  LET parts == split(pattern, "*")
      middle == SubSeq(parts, 2, Len(parts) - 1)
  IN Ok(Substring(attr,
                  IF parts[1] # <<>> THEN Some(parts[1]) ELSE None,
                  SelectSeq(middle, LAMBDA part : part # <<>>),
                  IF parts[Len(parts)] # <<>> THEN Some(parts[Len(parts)])
                  ELSE None))

\* Filter::parse_simple
parse_simple(s) ==
  LET eq_pos == find(s, "=") IN
  IF eq_pos = None THEN InvalidSyntax
  ELSE
    LET attr == SubSeq(s, 1, eq_pos[1] - 1)
        value == SubSeq(s, eq_pos[1] + 1, Len(s))
        rule_pos == rfind(attr, ":")
        rule == SubSeq(attr, rule_pos[1] + 1, Len(attr))
        base_attr == SubSeq(attr, 1, rule_pos[1] - 1)
    IN
      IF ends_with(attr, <<":", "dn">>)
        THEN Ok(Extensible(trim_end_matches(attr, <<":", "dn">>), None, TRUE,
                           value))
      ELSE IF rule_pos # None /\ rule # <<>> /\ rule[Len(rule)] \in MatchWords
        THEN Ok(Extensible(base_attr, Some(rule), FALSE, value))
      ELSE IF value = <<"*">> THEN Ok(Present(attr))
      ELSE IF find(value, "*") # None THEN parse_substring(attr, value)
      ELSE IF ends_with(attr, <<">", "=">>)
        THEN Ok(GreaterOrEqual(trim_end_matches(attr, <<">", "=">>), value))
      ELSE IF ends_with(attr, <<"<", "=">>)
        THEN Ok(LessOrEqual(trim_end_matches(attr, <<"<", "=">>), value))
      ELSE Ok(Equality(attr, value))

RECURSIVE parse(_)
RECURSIVE parse_inner(_)
RECURSIVE parse_list(_, _, _, _, _)

\* Filter::parse_list from character i on: the loop of lines 126-145 with
\* its locals depth, start and filters, then lines 147-151; the result is
\* the list of filters, which the caller wraps in And or Or
parse_list(s, i, depth, start, filters) ==
  IF i > Len(s)
    THEN IF depth # 0 THEN InvalidSyntax ELSE Ok(filters)
  ELSE IF s[i] = "("
    THEN parse_list(s, i + 1, depth + 1, IF depth = 0 THEN i ELSE start,
                    filters)
  ELSE IF s[i] = ")"
    THEN IF depth - 1 = 0
           THEN LET f == parse(SubSeq(s, start, i)) IN
                  IF IsOk(f)
                    THEN parse_list(s, i + 1, 0, start, Append(filters, f[2]))
                    ELSE f
         ELSE IF depth - 1 < 0 THEN InvalidSyntax
         ELSE parse_list(s, i + 1, depth - 1, start, filters)
  ELSE parse_list(s, i + 1, depth, start, filters)

\* Filter::parse_inner
parse_inner(s) ==
  IF s # <<>> /\ s[1] = "&"
    THEN LET l == parse_list(SubSeq(s, 2, Len(s)), 1, 0, 1, <<>>) IN
           IF IsOk(l) THEN Ok(And(l[2])) ELSE l
  ELSE IF s # <<>> /\ s[1] = "|"
    THEN LET l == parse_list(SubSeq(s, 2, Len(s)), 1, 0, 1, <<>>) IN
           IF IsOk(l) THEN Ok(Or(l[2])) ELSE l
  ELSE IF s # <<>> /\ s[1] = "!"
    THEN LET f == parse_inner(SubSeq(s, 2, Len(s))) IN
           IF IsOk(f) THEN Ok(Not(f[2])) ELSE f
  ELSE parse_simple(s)

\* Filter::parse
parse(s) ==
  LET t == str_trim(s) IN
    IF t = <<>> \/ t[1] # "(" \/ t[Len(t)] # ")" THEN InvalidSyntax
    ELSE parse_inner(SubSeq(t, 2, Len(t) - 1))

\* a String of the directory (a username, an email, a display name: one
\* word) as a string of the LDAP layer
Str(word) == <<word>>

\* str::eq_ignore_ascii_case
eq_ignore_ascii_case(a, b) ==
  /\ Len(a) = Len(b)
  /\ \A i \in 1..Len(a) : to_uppercase(a[i]) = to_uppercase(b[i])

\* the words of the model of which one is the start, or the end, of another
WordStarts == {<<"j", "jdoe">>, <<"j", "j@x">>}
WordEnds == {<<"doe", "jdoe">>}

\* str::starts_with, str::ends_with and str::contains of a pattern piece on
\* a one-word text
text_starts_with(text, piece) ==
  piece = text \/ (Len(piece) = 1 /\ <<piece[1], text[1]>> \in WordStarts)

text_ends_with(text, piece) ==
  piece = text \/ (Len(piece) = 1 /\ <<piece[1], text[1]>> \in WordEnds)

text_contains(text, piece) ==
  text_starts_with(text, piece) \/ text_ends_with(text, piece)

\* matches_object_class
matches_object_class(value, valid) ==
  \E cls \in valid : eq_ignore_ascii_case(Str(cls), value)

\* Option<String>::as_deref().unwrap_or("")
unwrap_or_empty(opt) == IF opt = None THEN <<>> ELSE Str(opt[1])

\* Filter::matches_user; the arms for userPrincipalName and created_at
\* read fields the model's User does not carry, and no filter of the model
\* names them
matches_user(f, user) ==
  CASE f[1] = "Equality" ->
         LET attr == f[2]
             value == f[3]
         IN CASE attr = <<"sAMAccountName">> ->
                   eq_ignore_ascii_case(Str(user.username), value)
              [] attr \in {<<"cn">>, <<"name">>} ->
                   /\ user.display_name # None
                   /\ eq_ignore_ascii_case(Str(user.display_name[1]), value)
              [] attr \in {<<"mail">>, <<"email">>} ->
                   /\ user.email # None
                   /\ eq_ignore_ascii_case(Str(user.email[1]), value)
              [] attr = <<"objectClass">> ->
                   matches_object_class(value, {"user", "person"})
              [] OTHER -> FALSE
    [] f[1] = "Substring" ->
         LET attr == f[2]
             text == CASE attr = <<"sAMAccountName">> -> Str(user.username)
                       [] attr \in {<<"cn">>, <<"name">>} ->
                            unwrap_or_empty(user.display_name)
                       [] attr \in {<<"mail">>, <<"email">>} ->
                            unwrap_or_empty(user.email)
                       [] OTHER -> <<>>
         IN /\ attr \in {<<"sAMAccountName">>, <<"cn">>, <<"name">>,
                         <<"mail">>, <<"email">>}
            /\ f[3] # None => text_starts_with(text, f[3][1])
            /\ \A i \in 1..Len(f[4]) : text_contains(text, f[4][i])
            /\ f[5] # None => text_ends_with(text, f[5][1])
    [] f[1] = "Present" ->
         CASE f[2] = <<"sAMAccountName">> -> user.username # ""
           [] f[2] \in {<<"cn">>, <<"name">>} -> user.display_name # None
           [] f[2] \in {<<"mail">>, <<"email">>} -> user.email # None
           [] OTHER -> FALSE
    [] OTHER -> FALSE

\* Filter::matches_user_with_service; the arms for tokenGroups and memberOf
\* (lines 160-170) ask the service, and no filter of the model names them
RECURSIVE matches_user_with_service(_, _)
matches_user_with_service(f, user) ==
  CASE f[1] = "And" ->
         \A i \in 1..Len(f[2]) : matches_user_with_service(f[2][i], user)
    [] f[1] = "Or" ->
         \E i \in 1..Len(f[2]) : matches_user_with_service(f[2][i], user)
    [] f[1] = "Not" -> ~matches_user_with_service(f[2], user)
    [] OTHER -> matches_user(f, user)

\* ---------------------------------------------------- the LDAP dispatcher
\* enum Asn1 as handle_client reads it: the variant, then its content
Integer(n) == <<"Integer", n>>
Enumerated(n) == <<"Enumerated", n>>
OctetString(data) == <<"OctetString", data>>
Sequence(items) == <<"Sequence", items>>

\* the responses, as what they carry: the operation, the messageID, and
\* the result code or the DN of the entry
build_bind_response(msg_id, result_code) ==
  <<"bindResponse", msg_id, result_code>>

build_search_result_entry(msg_id, dn) == <<"searchResEntry", msg_id, dn>>

build_search_done(msg_id, result_code) ==
  <<"searchResDone", msg_id, result_code>>

send_error(msg_id, code) == <<build_search_done(msg_id, code)>>

handle_bind(msg_id) == <<build_bind_response(msg_id, 0)>>

\* Domain::dn of the domain of lines 145-149, and generate_user_dn
domain_dn == <<"DC=corp", ",", "DC=acme", ",", "DC=com">>

generate_user_dn(user) == <<"CN=", user.username, ",">> \o domain_dn

\* the user ids handle_search walks: let all_user_ids = vec![]
all_user_ids == <<>>

\* the loop of handle_search (lines 156-188) over the ids left
RECURSIVE search_entries(_, _, _, _)
search_entries(m, msg_id, filter, ids) ==
  IF ids = <<>> THEN <<>>
  ELSE LET user == get_user(m, Head(ids))
           rest == search_entries(m, msg_id, filter, Tail(ids))
       IN IF user = None THEN rest
          ELSE IF ~matches_user_with_service(filter, user[1]) THEN rest
          ELSE <<build_search_result_entry(msg_id,
                                           generate_user_dn(user[1]))>>
               \o rest

\* handle_search: what it writes to the socket
handle_search(m, msg_id, op) ==
  IF Len(op) < 5 \/ op[5][1] # "OctetString" THEN send_error(msg_id, 2)
  ELSE LET filter == parse(op[5][2]) IN
         IF ~IsOk(filter) THEN send_error(msg_id, 21)
         ELSE search_entries(m, msg_id, filter[2], all_user_ids)
              \o <<build_search_done(msg_id, 0)>>

\* handle_client: one pass of its loop on what the parser returned for the
\* bytes read (None: they do not parse); the result is what the pass writes
\* to the socket
handle_message(m, parsed) ==
  IF parsed # None /\ parsed[1][1] = "Sequence"
    THEN LET message == parsed[1][2] IN
      IF Len(message) < 3 THEN <<>>
      ELSE IF message[1][1] # "Integer" THEN <<>>
      ELSE IF message[3][1] # "Sequence" THEN <<>>
      ELSE LET msg_id == message[1][2]
               op == message[3][2]
           IN IF op # <<>> /\ op[1][1] = "OctetString" /\ Len(op) >= 3
                THEN handle_bind(msg_id)
              ELSE IF op # <<>> /\ op[1] = Enumerated(3)
                THEN handle_search(m, msg_id, op)
              ELSE send_error(msg_id, 12)
    ELSE send_error(1, 2)

\* the connections the model keeps open at a time; their handlers share
\* nothing
MaxConnections == 1

LdapPcs == {"ldap_message", "ldap_loop"}

\* the locals of a connection's handler: what the parser returned for the
\* last bytes read, and what the handler wrote since
LdapLoc(parsed, written) ==
  [via |-> "handle_client", parsed |-> parsed, written |-> written]

\* socket.read returned bytes, and the parser ran on them (lines 79-82);
\* the first read follows the accept
LdapRead(t, parsed) ==
  /\ db = "open" /\ ~Dropping
  /\ pc[t] \in {"idle", "ldap_loop"}
  /\ pc[t] = "idle" =>
       Cardinality({s \in Threads : pc[s] \in LdapPcs}) < MaxConnections
  /\ pc' = [pc EXCEPT ![t] = "ldap_message"]
  /\ loc' = [loc EXCEPT ![t] = LdapLoc(parsed, <<>>)]
  /\ UNCHANGED <<file, db, dbkey, cache, writer, readers, poisoned, res,
                 openRes, openKey, lastClose>>

\* the rest of the pass: lines 84-109
LdapDispatch(t) ==
  /\ db = "open" /\ ReadFree
  /\ pc[t] = "ldap_message"
  /\ pc' = [pc EXCEPT ![t] = "ldap_loop"]
  /\ loc' = [loc EXCEPT ![t].written = handle_message(Machine, loc[t].parsed)]
  /\ UNCHANGED <<file, db, dbkey, cache, writer, readers, poisoned, res,
                 openRes, openKey, lastClose>>

\* socket.read returned 0: the loop ends (line 80)
LdapClose(t) ==
  /\ pc[t] = "ldap_loop"
  /\ pc' = [pc EXCEPT ![t] = "idle"]
  /\ loc' = [loc EXCEPT ![t] = NoLoc]
  /\ UNCHANGED <<file, db, dbkey, cache, writer, readers, poisoned, res,
                 openRes, openKey, lastClose>>

\* ------------------------------------------------ messages of the model
MsgIds == {1, 2}

\* (&(objectClass=user)(sAMAccountName=jdoe))
FilterUserJdoe ==
  <<"(", "&", "(", "objectClass", "=", "user", ")",
    "(", "sAMAccountName", "=", "jdoe", ")", ")">>

\* sAMAccountName=jdoe, without its parentheses
FilterBare == <<"sAMAccountName", "=", "jdoe">>

\* a bindRequest: version, name, authentication; element 0 an OCTET STRING
\* as the dispatcher expects it
BindOp == Sequence(<<OctetString(<<"cn=admin">>), OctetString(<<"pw">>),
                     OctetString(<<>>)>>)

\* a searchRequest whose element 0 is ENUMERATED 3 and whose element 4 is
\* the filter, as the dispatcher expects it
SearchOp(filter) ==
  Sequence(<<Enumerated(3), Enumerated(2), Enumerated(0), Integer(0),
             OctetString(filter)>>)

\* a searchRequest without a filter, and an operation that is neither
SearchOpShort == Sequence(<<Enumerated(3)>>)
OtherOp == Sequence(<<Enumerated(7)>>)

\* the optional controls element: an empty list of controls
Controls == Sequence(<<>>)

SearchOps == {SearchOp(FilterUserJdoe), SearchOp(FilterBare)}
ProtocolOps == {BindOp, SearchOpShort, OtherOp} \cup SearchOps

\* what the parser may return: nothing, a value that is no SEQUENCE, a
\* message with or without controls, a message whose third element is
\* itself an operation, and messages whose messageID is no INTEGER or whose
\* third element is no SEQUENCE
ParsedMessages ==
  {None, Some(Integer(1))}
    \cup {Some(Sequence(<<Integer(id), op>>)) :
            id \in MsgIds, op \in ProtocolOps}
    \cup {Some(Sequence(<<Integer(id), op, third>>)) :
            id \in MsgIds, op \in ProtocolOps,
            third \in {Controls} \cup ProtocolOps}
    \cup {Some(Sequence(<<OctetString(<<>>), BindOp, Controls>>)),
          Some(Sequence(<<Integer(2), BindOp, OctetString(<<>>)>>))}

InitLdap ==
  /\ file = SnapshotFile(1, 1, SeedDirectory)
  /\ InitCommon

NextLdap ==
  \/ \E k \in MasterKeys : Open(k)
  \/ \E t \in Threads, parsed \in ParsedMessages : LdapRead(t, parsed)
  \/ \E t \in Threads : LdapDispatch(t)
  \/ \E t \in Threads : LdapClose(t)

SpecLdap == InitLdap /\ [][NextLdap]_vars

\* -------------------------------------------------- claims on the LDAP layer
\* the messages that parse as SEQUENCE { messageID INTEGER, protocolOp,
\* controls? }
WellFormed(parsed) ==
  /\ parsed # None
  /\ parsed[1][1] = "Sequence"
  /\ Len(parsed[1][2]) \in {2, 3}
  /\ parsed[1][2][1][1] = "Integer"
  /\ parsed[1][2][2] \in ProtocolOps
  /\ Len(parsed[1][2]) = 3 => parsed[1][2][3] = Controls

\* the response the dispatch owes to a well-formed message
Answered(parsed, written) ==
  LET msg_id == parsed[1][2][1][2]
      op == parsed[1][2][2]
  IN IF op = BindOp THEN written = <<build_bind_response(msg_id, 0)>>
     ELSE IF op \in SearchOps \cup {SearchOpShort}
       THEN /\ written # <<>>
            /\ written[Len(written)][1] = "searchResDone"
            /\ \A i \in 1..Len(written) : written[i][2] = msg_id
     ELSE written = <<build_search_done(msg_id, 12)>>

\* C31: when a pass of the handler's loop is over (the next read is next),
\* a message that parsed as SEQUENCE { messageID, protocolOp, controls? },
\* with or without the controls, has been answered under its messageID:
\* bindResponse{success} for a BIND, a final searchResDone for a SEARCH,
\* searchResDone{unavailable (12)} for any other operation; and bytes that
\* do not parse have been answered with protocolError (2).
C31_EveryRequestAnswered ==
  \A t \in Threads :
    pc[t] = "ldap_loop" =>
      /\ WellFormed(loc[t].parsed) =>
           Answered(loc[t].parsed, loc[t].written)
      /\ loc[t].parsed = None =>
           /\ Len(loc[t].written) = 1
           /\ loc[t].written[1][1] = "searchResDone"
           /\ loc[t].written[1][3] = 2

\* what a SEARCH with this filter owes: one searchResEntry per stored user
\* the filter matches, then one searchResDone{success}; or
\* invalidAttributeSyntax (21) alone when the filter does not parse
SearchAnswered(filter, msg_id, written) ==
  LET f == parse(filter)
      n == Len(written) - 1
      entry(u) == build_search_result_entry(msg_id, generate_user_dn(u))
      matching == {u \in StoredUsers : matches_user_with_service(f[2], u)}
  IN IF IsOk(f)
       THEN /\ written # <<>>
            /\ written[n + 1] = build_search_done(msg_id, 0)
            /\ \A i \in 1..n : \E u \in matching : written[i] = entry(u)
            /\ \A u \in matching :
                 Cardinality({i \in 1..n : written[i] = entry(u)}) = 1
       ELSE written = send_error(msg_id, 21)

\* C32: when handle_client has handed a search operation that carries a
\* filter to handle_search and the pass is over, the handler has written
\* exactly one searchResEntry per stored user that satisfies the filter
\* (for the stored user jdoe and (&(objectClass=user)(sAMAccountName=jdoe)):
\* one entry with the DN CN=jdoe,DC=corp,DC=acme,DC=com) and then one
\* searchResDone with code 0; for a filter that does not parse it has
\* written invalidAttributeSyntax (21) and no entry.
C32_SearchReturnsMatches ==
  \A t \in Threads :
    (/\ pc[t] = "ldap_loop"
     /\ loc[t].parsed # None
     /\ loc[t].parsed[1][1] = "Sequence"
     /\ Len(loc[t].parsed[1][2]) = 3
     /\ loc[t].parsed[1][2][1][1] = "Integer"
     /\ loc[t].parsed[1][2][3] \in SearchOps)
    => SearchAnswered(loc[t].parsed[1][2][3][2][5][2],
                      loc[t].parsed[1][2][1][2], loc[t].written)

\* ------------------------------------------------ claims on side effects
\* The log mextdomen.log, as the records appended to it. No function of
\* the service, or of any other source file, opens or writes such a file:
\* the only file the program writes is the database (raddb.rs:140-147), so
\* the log is the same in every state.
audit_log == <<>>

MutationOps ==
  {"create_user", "rename_user", "delete_user", "create_group",
   "add_member_to_group", "remove_member_from_group", "delete_group",
   "create_ou", "delete_ou", "set_block_inheritance", "create_gpo",
   "link_gpo_to_ou", "unlink_gpo_from_ou", "set_gpo_enforced"}

\* this step is the return of a mutation with Ok
MutationCompletes ==
  /\ res'.op \in MutationOps
  /\ res'.tag = "Ok"
  /\ res'.op # res.op \/ res'.tag # res.tag \/ cache' # cache

\* C33: every step in which a mutation of the service completes appends
\* exactly one record to mextdomen.log, and no step changes or removes a
\* record that is already in the log.
C33_AuditLogAppended ==
  [][/\ Len(audit_log') >= Len(audit_log)
     /\ SubSeq(audit_log', 1, Len(audit_log)) = audit_log
     /\ MutationCompletes => Len(audit_log') = Len(audit_log) + 1]_vars

\* ----------------------------------------------------------- the login
\* bcrypt::hash: the hash string of a password, the prefix of a bcrypt
\* hash and what the password hashes to (cost and salt decide nothing here)
bcrypt_hash(password) == <<"$2b$", password>>

new_bcrypt(password) == PasswordHash(bcrypt_hash(password), "Bcrypt")

\* PasswordHash::verify; bcrypt::verify fails on a string that is not a
\* bcrypt hash
verify(ph, password) ==
  IF ph.algorithm = "Bcrypt"
  THEN IF Len(ph.hash) = 2 /\ ph.hash[1] = "$2b$"
       THEN Ok(ph.hash = bcrypt_hash(password))
       ELSE <<"Err", "VerificationFailed">>
  ELSE <<"Err", "NotImplemented">>

\* Uuid::to_string
uuid_to_string(id) == <<"uuid", id>>

\* auth::generate_token: the signed claims, as their subject; config is
\* what the process found in its environment when CONFIG was first read
AuthConfigs == {"loaded", "missing"}

generate_token(user_id, config) ==
  IF config = "loaded" THEN Ok(<<"jwt", user_id>>)
  ELSE <<"Err", "MissingEnv">>

\* the responses of the handler: the status, then the body
LoginError(kind) ==
  CASE kind = "InvalidCredentials" -> <<401, "Invalid username or password">>
    [] kind = "Internal" -> <<500, "Internal error">>
    [] kind = "TokenGeneration" -> <<500, "Failed to generate token">>

login_handler(m, username, password, config) ==
  LET found == find_user_by_username(m, username) IN
    IF found = None THEN LoginError("InvalidCredentials")
    ELSE LET user == found[1]
             valid == verify(user.password_hash, password)
             token == generate_token(uuid_to_string(user.id), config)
         IN IF ~IsOk(valid) THEN LoginError("Internal")
            ELSE IF ~valid[2] THEN LoginError("InvalidCredentials")
            ELSE IF ~IsOk(token) THEN LoginError("TokenGeneration")
            ELSE <<200, token[2], uuid_to_string(user.id), 86400>>

Passwords == {"P@ssw0rd123", "P@ssw0rd!", "wrong"}

\* POST /api/login: the handler reads the store and answers
Login(t, username, password, config) ==
  /\ CanCall(t) /\ ReadFree
  /\ res' = Result("login", "ret",
                   <<username, password,
                     login_handler(Machine, username, password, config)>>)
  /\ UNCHANGED <<file, db, dbkey, cache, writer, readers, poisoned, pc, loc,
                 openRes, openKey, lastClose>>

\* the directory the login is tried on: one stored user, whose hash is
\* either the bcrypt hash of a password or the string the user-creating
\* handlers store
StoredHashes ==
  {new_bcrypt("P@ssw0rd123"), new_bcrypt("P@ssw0rd!"), DefaultPasswordHash}

LoginDirectory(ph) ==
  Deserialize({<<UserKey(1), [SeedUser EXCEPT !.password_hash = ph]>>,
               <<UsernameIndexKey("jdoe"), 1>>,
               <<EmailIndexKey("j@x"), 1>>,
               <<AllUsersKey, <<1>>>>})

InitLogin ==
  /\ file \in {SnapshotFile(1, 1, LoginDirectory(ph)) : ph \in StoredHashes}
  /\ InitCommon

NextLogin ==
  \/ \E k \in MasterKeys : Open(k)
  \/ \E t \in Threads, o \in SelfLockOutcomes :
       \E id \in UserIds, n \in Usernames,
          e \in {None} \cup {Some(x) : x \in Emails} :
         CreateUser(t, User(id, n, e, None), o)
  \/ \E t \in Threads, n \in Usernames, p \in Passwords, c \in AuthConfigs :
       Login(t, n, p, c)

SpecLogin == InitLogin /\ [][NextLogin]_vars

\* the stored user of a name, read from the cache itself
StoredUser(username) ==
  IF /\ UsernameIndexKey(username) \in DOMAIN cache
     /\ UserKey(cache[UsernameIndexKey(username)]) \in DOMAIN cache
  THEN Some(cache[UserKey(cache[UsernameIndexKey(username)])])
  ELSE None

\* C34: whenever the login handler answers, then for a stored user whose
\* password verifies against the stored hash the answer is 200 with a token
\* for that user's id, for an unknown username or a password that does not
\* verify it is 401 without a token, and the store (cache and file) is as it
\* was before the request.
C34_LoginAnswers ==
  [][(res'.op = "login" /\ res' # res) =>
       LET username == res'.val[1]
           password == res'.val[2]
           response == res'.val[3]
           user == StoredUser(username)
       IN /\ cache' = cache /\ file' = file
          /\ IF /\ user # None
                /\ verify(user[1].password_hash, password) = Ok(TRUE)
             THEN /\ response[1] = 200
                  /\ response[2] = <<"jwt", uuid_to_string(user[1].id)>>
             ELSE /\ response[1] = 401
                  /\ Len(response) = 2]_vars

\* ------------------------------------------------- security identifiers
\* u64 values as their decimal digits, least significant first and without
\* leading zeros (the authority of a SID needs 48 bits)
RECURSIVE u64(_)
u64(n) == IF n = 0 THEN <<>> ELSE <<n % 10>> \o u64(n \div 10)

\* x * k + carry, for a small k
RECURSIVE u64_mul(_, _, _)
u64_mul(x, k, carry) ==
  IF x = <<>> THEN u64(carry)
  ELSE <<(x[1] * k + carry) % 10>>
         \o u64_mul(Tail(x), k, (x[1] * k + carry) \div 10)

\* x + y + carry
RECURSIVE u64_add(_, _, _)
u64_add(x, y, carry) ==
  IF x = <<>> /\ y = <<>> THEN u64(carry)
  ELSE LET a == IF x = <<>> THEN 0 ELSE x[1]
           b == IF y = <<>> THEN 0 ELSE y[1]
       IN <<(a + b + carry) % 10>>
            \o u64_add(IF x = <<>> THEN x ELSE Tail(x),
                       IF y = <<>> THEN y ELSE Tail(y),
                       (a + b + carry) \div 10)

\* x << bits, bits a multiple of 8
RECURSIVE shl(_, _)
shl(x, bits) == IF bits = 0 THEN x ELSE shl(u64_mul(x, 256, 0), bits - 8)

\* u64::from_be_bytes
RECURSIVE from_be_bytes(_)
from_be_bytes(bytes) ==
  IF bytes = <<>> THEN <<>>
  ELSE u64_add(shl(from_be_bytes(SubSeq(bytes, 1, Len(bytes) - 1)), 8),
               u64(bytes[Len(bytes)]), 0)

DigitChars == <<"0", "1", "2", "3", "4", "5", "6", "7", "8", "9">>

\* Display of an unsigned integer: its decimal digits as characters
RECURSIVE digits_to_string(_)
digits_to_string(x) ==
  IF x = <<>> THEN <<>>
  ELSE digits_to_string(Tail(x)) \o <<DigitChars[x[1] + 1]>>

u64_to_string(x) == IF x = <<>> THEN <<"0">> ELSE digits_to_string(x)

\* [String]::join
RECURSIVE join(_, _)
join(strs, sep) ==
  IF strs = <<>> THEN <<>>
  ELSE IF Len(strs) = 1 THEN strs[1]
  ELSE strs[1] \o <<sep>> \o join(Tail(strs), sep)

\* struct SecurityIdentifier
SecurityIdentifier(revision, authority, sub_authorities) ==
  [revision |-> revision, authority |-> authority,
   sub_authorities |-> sub_authorities]

new_nt_authority(id) == SecurityIdentifier(1, <<0, 0, 0, 0, 0, 5>>, <<id>>)

new_from_parts(authority, subs) == SecurityIdentifier(1, authority, subs)

\* SecurityIdentifier::to_string, as the characters of the string
to_string(sid) ==
  LET auth ==
        u64_add(
          u64_add(
            u64_add(
              u64_add(
                from_be_bytes(<<0, 0, 0, 0, 0, 0,
                                sid.authority[1], sid.authority[2]>>),
                shl(u64(sid.authority[3]), 40), 0),
              shl(u64(sid.authority[4]), 32), 0),
            shl(u64(sid.authority[5]), 24), 0),
          shl(u64(sid.authority[6]), 16), 0)
      subs == [i \in 1..Len(sid.sub_authorities) |->
                 u64_to_string(u64(sid.sub_authorities[i]))]
  IN <<"S", "-">> \o u64_to_string(u64(sid.revision)) \o <<"-">>
       \o u64_to_string(auth) \o <<"-">> \o join(subs, "-")

\* the SIDs the function is tried on
Authorities ==
  {<<0, 0, 0, 0, 0, 5>>, <<0, 0, 0, 0, 5, 0>>, <<0, 5, 0, 0, 0, 0>>,
   <<5, 0, 0, 0, 0, 0>>}

SubAuthorities == {<<512>>, <<5, 12>>, <<51, 2>>}

Sids ==
  {new_from_parts(a, s) : a \in Authorities, s \in SubAuthorities}

InitSid ==
  /\ file = MissingFile
  /\ db = "none"
  /\ dbkey = 0
  /\ cache = EmptyMap
  /\ writer = NoThread
  /\ readers = {}
  /\ poisoned = FALSE
  /\ pc = [t \in Threads |-> "idle"]
  /\ loc = [t \in Threads |-> NoLoc]
  /\ res \in {Result("sid", "input", <<a, b>>) : a, b \in Sids}
  /\ openRes = "none"
  /\ openKey = 0
  /\ lastClose = [how |-> "none", flush |-> "none"]

\* to_string of the two SIDs drawn
SidToString ==
  /\ res.op = "sid"
  /\ res' = Result("to_string", "ret",
                   <<res.val[1], res.val[2],
                     to_string(res.val[1]), to_string(res.val[2])>>)
  /\ UNCHANGED <<file, db, dbkey, cache, writer, readers, poisoned, pc, loc,
                 openRes, openKey, lastClose>>

NextSid == SidToString

SpecSid == InitSid /\ [][NextSid]_vars

\* the canonical string of a SID: S-<revision>-<authority>-<sub>-..., with
\* the authority the six bytes read as one big-endian integer
CanonicalSid(sid) ==
  <<"S", "-">> \o u64_to_string(u64(sid.revision)) \o <<"-">>
    \o u64_to_string(from_be_bytes(sid.authority)) \o <<"-">>
    \o join([i \in 1..Len(sid.sub_authorities) |->
               u64_to_string(u64(sid.sub_authorities[i]))], "-")

\* C35: to_string of a SID is its canonical string (for the NT authority
\* [0,0,0,0,0,5] with sub-authority 512 it is "S-1-5-512"), and two SIDs
\* have the same string exactly when they are structurally equal.
C35_SidCanonicalString ==
  res.op = "to_string" =>
    /\ res.val[3] = CanonicalSid(res.val[1])
    /\ res.val[1] = new_nt_authority(512)
         => res.val[3] = <<"S", "-", "1", "-", "5", "-", "5", "1", "2">>
    /\ (res.val[3] = res.val[4]) <=> (res.val[1] = res.val[2])

\* ------------------------------------------------ filters and negation
\* the filter strings the parser is tried on
FilterStrings ==
  {<<"(", "sAMAccountName", "=", "jdoe", ")">>,
   <<"(", "sAMAccountName", "=", "alice", ")">>,
   <<"(", "cn", "=", "John", ")">>,
   <<"(", "mail", "=", "j@x", ")">>,
   <<"(", "mail", "=", "*", ")">>,
   <<"(", "objectClass", "=", "user", ")">>,
   <<"(", "sAMAccountName", "=", "j", "*", ")">>,
   <<"(", "&", ")">>,
   <<"(", "|", "(", "sAMAccountName", "=", "jdoe", ")",
     "(", "sAMAccountName", "=", "alice", ")", ")">>,
   FilterUserJdoe,
   FilterBare}

\* "(!" + f + ")"
Negated(f) == <<"(", "!">> \o f \o <<")">>

FilterUsers ==
  {User(1, n, e, d) :
     n \in {"jdoe", "alice"},
     e \in {None, Some("j@x")},
     d \in {None, Some("John")}}

\* whether the filter a parse gave matches the user (None: no filter)
match_of(parsed, user) ==
  IF IsOk(parsed) THEN Some(matches_user_with_service(parsed[2], user))
  ELSE None

InitFilter ==
  /\ file = MissingFile
  /\ db = "none"
  /\ dbkey = 0
  /\ cache = EmptyMap
  /\ writer = NoThread
  /\ readers = {}
  /\ poisoned = FALSE
  /\ pc = [t \in Threads |-> "idle"]
  /\ loc = [t \in Threads |-> NoLoc]
  /\ res \in {Result("filter", "input", <<f, u>>) :
                f \in FilterStrings, u \in FilterUsers}
  /\ openRes = "none"
  /\ openKey = 0
  /\ lastClose = [how |-> "none", flush |-> "none"]

\* Filter::parse of the string drawn and of its negation, and both filters
\* on the user drawn
FilterParse ==
  /\ res.op = "filter"
  /\ res' = Result("parse", "ret",
                   <<res.val[1], res.val[2],
                     parse(res.val[1]), parse(Negated(res.val[1])),
                     match_of(parse(res.val[1]), res.val[2]),
                     match_of(parse(Negated(res.val[1])), res.val[2])>>)
  /\ UNCHANGED <<file, db, dbkey, cache, writer, readers, poisoned, pc, loc,
                 openRes, openKey, lastClose>>

NextFilter == FilterParse

SpecFilter == InitFilter /\ [][NextFilter]_vars

\* C36: for every filter string f that Filter::parse accepts, the parse of
\* "(!" + f + ")" is Not(parse(f)), and the negated filter matches a user
\* exactly when f does not match it.
C36_NegationParses ==
  (res.op = "parse" /\ IsOk(res.val[3])) =>
    /\ res.val[4] = Ok(Not(res.val[3][2]))
    /\ res.val[6] = Some(~res.val[5][1])

\* ------------------------------------------------ claims on durability
\* C37: a delete_user, rename_user or delete_group of a stored record, on
\* an open store whose lock is free and not poisoned, returns Ok; and
\* whenever a mutation of the service has returned Ok, the snapshot in the
\* database file, as a reopen with the same key loads it, equals the cache,
\* so that no deleted record and no removed index key is left on disk.
C37_CompletedMutationsDurable ==
  [][/\ MutationCompletes => load(file', dbkey').data = cache'
     /\ \A id \in UserIds :
          (/\ ~poisoned
           /\ UserKey(id) \in DOMAIN cache
           /\ \E t \in Threads, o \in SelfLockOutcomes :
                \/ \E ord \in GroupOrders : DeleteUser(t, id, o, ord)
                \/ \E n \in {None} \cup {Some(x) : x \in Usernames},
                      d \in {None} \cup {Some(x) : x \in DisplayNames} :
                     /\ n = None \/ find_user_by_username(Machine, n[1]) = None
                     /\ RenameUser(t, id, n, d, o))
            => res'.tag = "Ok"
     /\ \A g \in GroupIds :
          (/\ ~poisoned
           /\ GroupKey(g) \in DOMAIN cache
           /\ \E t \in Threads, o \in SelfLockOutcomes : DeleteGroup(t, g, o))
            => res'.tag = "Ok"]_vars

\* ========================================================================
\* Part 4: interleavings of service calls
\* ========================================================================
\* Every load and every store of a service call awaits the lock of the
\* store on its own (directory_service.rs:70-91), so the loads and stores of
\* another task run between them. A call is taken here in two steps: what it
\* reads first, and the rest, which starts with its first store. No call
\* gets past its first store (RadDB::set ends in a deadlock, a panic or an
\* error), so the rest has no further point at which another task's store
\* could fall.
RaceLoc(via, arg, read) == [via |-> via, arg |-> arg, read |-> read]

Pending(t, via) == pc[t] = "pending" /\ loc[t].via = via

\* the call of t has read; its stores are still to come
Await(t, via, arg, read) ==
  /\ pc' = [pc EXCEPT ![t] = "pending"]
  /\ loc' = [loc EXCEPT ![t] = RaceLoc(via, arg, read)]
  /\ UNCHANGED <<file, db, dbkey, cache, writer, readers, poisoned, res,
                 openRes, openKey, lastClose>>

\* create_user: the checks of lines 119-137. Uuid::new_v4 gives the user an
\* id that no stored user and no other call carries.
CreateUserChecks(t, user) ==
  /\ CanCall(t) /\ ReadFree
  /\ UserKey(user.id) \notin DOMAIN cache
  /\ \A s \in Threads :
       ~(Pending(s, "create_user") /\ loc[s].arg.id = user.id)
  /\ Await(t, "create_user", user, create_user_checks(Machine, user).st)

\* create_user: the return of AlreadyExists, or the stores of lines 139-156
CreateUserStores(t, o) ==
  /\ Pending(t, "create_user") /\ db = "open" /\ ReadFree
  /\ DirCall(t, "create_user", loc[t].arg,
             IF loc[t].read = "ret" THEN Ret(Machine, "AlreadyExists")
             ELSE create_user_stores(Machine, loc[t].arg, o))

\* add_member_to_group: the load of the group (line 312), for a stored user
AddMemberLoad(t, group_id, user_id) ==
  /\ CanCall(t) /\ ReadFree
  /\ UserKey(user_id) \in DOMAIN cache
  /\ Await(t, "add_member_to_group", <<group_id, user_id>>,
           get_group(Machine, group_id))

\* add_member_to_group: the rest, on the group as it was loaded
AddMemberStore(t, o) ==
  /\ Pending(t, "add_member_to_group") /\ db = "open" /\ ReadFree
  /\ DirCall(t, "add_member_to_group", loc[t].arg,
             add_member_to_loaded(Machine, loc[t].read, loc[t].arg[2], o))

\* delete_user: get_user and find_groups_by_member (lines 196-199)
DeleteUserReads(t, user_id, ord) ==
  /\ CanCall(t) /\ ReadFree
  /\ Await(t, "delete_user", user_id,
           <<get_user(Machine, user_id),
             IF get_user(Machine, user_id) = None THEN <<>>
             ELSE find_groups_by_member(Machine, user_id, ord)>>)

\* delete_user: the rest, on the user and the groups as they were read
DeleteUserWrites(t, o) ==
  /\ Pending(t, "delete_user") /\ db = "open" /\ ReadFree
  /\ DirCall(t, "delete_user", loc[t].arg,
             delete_user_found(Machine, loc[t].read[1], loc[t].read[2], o))

\* a directory with one user and one group that has no member yet
RaceDirectory ==
  Deserialize({<<UserKey(1), SeedUser>>,
               <<UsernameIndexKey("jdoe"), 1>>,
               <<EmailIndexKey("j@x"), 1>>,
               <<AllUsersKey, <<1>>>>,
               <<GroupKey(1), Group(1, "Admins", <<>>)>>,
               <<SamIndexKey("ADMINS"), 1>>,
               <<AllGroupsKey, <<1>>>>})

InitRace ==
  /\ file \in {MissingFile, SnapshotFile(1, 1, SeedDirectory),
               SnapshotFile(1, 1, RaceDirectory)}
  /\ InitCommon

NextRace ==
  \/ \E k \in MasterKeys : Open(k)
  \/ \E t \in Threads, id \in UserIds, n \in Usernames,
        e \in {None} \cup {Some(x) : x \in Emails} :
       CreateUserChecks(t, User(id, n, e, None))
  \/ \E t \in Threads, o \in SelfLockOutcomes : CreateUserStores(t, o)
  \/ \E t \in Threads, g \in GroupIds, u \in UserIds : AddMemberLoad(t, g, u)
  \/ \E t \in Threads, o \in SelfLockOutcomes : AddMemberStore(t, o)
  \/ \E t \in Threads, u \in UserIds, ord \in GroupOrders :
       DeleteUserReads(t, u, ord)
  \/ \E t \in Threads, o \in SelfLockOutcomes : DeleteUserWrites(t, o)

SpecRace == InitRace /\ [][NextRace]_vars

\* ------------------------------------------------ claims on interleavings
\* no call of the service is in progress
NoCallInProgress == \A t \in Threads : pc[t] = "idle"

\* C38: for every interleaving of create_user calls that carry the same
\* username (or the same email) and different ids, at most one returns Ok
\* (no call returns Ok for a username or an email that another stored user
\* has), and once no call is in progress at most one stored user has a given
\* username and username_index:<name> points to it.
C38_UsernameUniqueConcurrent ==
  [][/\ (/\ \E t \in Threads, o \in SelfLockOutcomes : CreateUserStores(t, o)
         /\ res'.tag = "Ok")
          => \A u \in StoredUsers :
               \/ u.id = res'.val.id
               \/ /\ u.username # res'.val.username
                  /\ u.email = None \/ u.email # res'.val.email
     /\ (db' = "open" /\ NoCallInProgress') =>
          \A u \in StoredUsers' :
            /\ \A v \in StoredUsers' : v.username = u.username => v = u
            /\ MapGet(cache', UsernameIndexKey(u.username)) = Some(u.id)]_vars

\* all_users_index as a set
AllUsersIndex ==
  LET ids == IF AllUsersKey \in DOMAIN cache THEN cache[AllUsersKey] ELSE <<>>
  IN {ids[i] : i \in 1..Len(ids)}

\* C39: no update of all_users_index is lost. A create_user whose checks
\* passed, on a store that is not poisoned, returns Ok whatever other
\* create_user calls run beside it, and every create_user that returns Ok
\* leaves its id in all_users_index together with every id that was in it.
C39_NoLostIndexUpdate ==
  [][\A t \in Threads :
       (/\ \E o \in SelfLockOutcomes : CreateUserStores(t, o)
        /\ loc[t].read = "run"
        /\ ~poisoned)
         => /\ res'.tag = "Ok"
            /\ loc[t].arg.id \in AllUsersIndex'
            /\ AllUsersIndex \subseteq AllUsersIndex']_vars

\* no membership of a user whose record is gone
NoDanglingMembership ==
  \A u \in UserIds :
    \/ UserKey(u) \in DOMAIN cache
    \/ GroupsHolding(u) = {} /\ MemberIndexOf(u) = {}

\* C40: for every interleaving of delete_user(u) with
\* add_member_to_group(g, u) on a store that is not poisoned, both calls
\* return (delete_user of a stored user and add_member_to_group to a stored
\* group return Ok), and once no call is in progress either the record of u
\* exists or no stored group has u as a member and member_index:<u> lists no
\* group.
C40_NoDanglingMembership ==
  [][/\ \A t \in Threads :
          (/\ \E o \in SelfLockOutcomes : DeleteUserWrites(t, o)
           /\ loc[t].read[1] # None
           /\ ~poisoned)
            => res'.tag = "Ok"
     /\ \A t \in Threads :
          (/\ \E o \in SelfLockOutcomes : AddMemberStore(t, o)
           /\ loc[t].read # None
           /\ ~poisoned)
            => res'.tag = "Ok"
     /\ (db' = "open" /\ NoCallInProgress') => NoDanglingMembership']_vars

====
